---- MODULE Spec2Model ----
(***************************************************************************)
(* Verification model of the shellf book-text chunking engine              *)
(* (src/src/lib/chunker.ts).                                               *)
(*                                                                         *)
(* A text is a sequence of one-character strings.  Positions are the       *)
(* 0-based indices of the TypeScript source: At(t, i) is t[i] of the       *)
(* source, Slice(t, a, b) is t.slice(a, b).                                *)
(***************************************************************************)
EXTENDS Integers, Sequences, FiniteSets, TLC

VARIABLES text, options, chapters, chunks, pc, capturedToken, chapterNum,
          db, request, response, rateLimitStore, now, allowedLog,
          stats, invocations, regexLastIndex, pending, createLog

vars == <<text, options, chapters, chunks, pc, capturedToken, chapterNum,
          db, request, response, rateLimitStore, now, allowedLog,
          stats, invocations, regexLastIndex, pending, createLog>>

\* the variables of the chunker and of the HTTP API
chunkerVars == <<text, options, chapters, chunks, pc, capturedToken, chapterNum>>

apiVars == <<db, request, response>>

\* the variables of the rate limiter
rateVars == <<rateLimitStore, now, allowedLog>>

\* the result of getBookStats, and the chunkBook invocations in progress with
\* the lastIndex of their regular expressions
callVars == <<stats, invocations, regexLastIndex, pending, createLog>>

\* the checkout requests in progress and the rows the database accepted
raceVars == <<pending, createLog>>

(***************************************************************************)
(* Character classes of the regular expressions used by the chunker.       *)
(***************************************************************************)
UpperCase == {"A","B","C","D","E","F","G","H","I","J","K","L","M",
              "N","O","P","Q","R","S","T","U","V","W","X","Y","Z"}

LowerCase == {"a","b","c","d","e","f","g","h","i","j","k","l","m",
              "n","o","p","q","r","s","t","u","v","w","x","y","z"}

Letters == UpperCase \cup LowerCase

Digits == {"0","1","2","3","4","5","6","7","8","9"}

RomanChars == {"I","V","X","L","C","D","M"}

\* \s of a JavaScript regular expression, restricted to the characters of
\* the modelled texts; String.prototype.trim removes the same characters.
WhiteSpace == {" ", "\n", "\t", "\r"}

\* the characters "." does not match and before which "$" matches (flag m)
LineTerminators == {"\n", "\r"}

SentenceEnders == {".", "!", "?"}

(***************************************************************************)
(* String primitives.                                                      *)
(***************************************************************************)
At(t, i) == t[i + 1]

Slice(t, a, b) == IF a >= b THEN <<>> ELSE SubSeq(t, a + 1, b)

Min(a, b) == IF a <= b THEN a ELSE b

\* end of the maximal run of characters of S that starts at position i
RunEnd(t, i, S) ==
    IF i >= Len(t) THEN i
    ELSE CHOOSE j \in i..Len(t) :
            /\ j = Len(t) \/ At(t, j) \notin S
            /\ \A k \in i..(j - 1) : At(t, k) \in S

\* end of the maximal run of characters outside S that starts at position i
RunEndNot(t, i, S) ==
    IF i >= Len(t) THEN i
    ELSE CHOOSE j \in i..Len(t) :
            /\ j = Len(t) \/ At(t, j) \in S
            /\ \A k \in i..(j - 1) : At(t, k) \notin S

\* start of the maximal run of characters of S that ends at position j
RunStart(t, j, S) ==
    IF j <= 0 THEN j
    ELSE CHOOSE i \in 0..j :
            /\ i = 0 \/ At(t, i - 1) \notin S
            /\ \A k \in i..(j - 1) : At(t, k) \in S

\* the least member of a non-empty set of integers
Least(S) == CHOOSE x \in S : \A y \in S : x <= y

\* String.prototype.trim
Trim(t) ==
    LET a == RunEnd(t, 0, WhiteSpace)
        b == RunStart(t, Len(t), WhiteSpace)
    IN  Slice(t, a, b)

StartsWithAt(t, i, w) ==
    /\ i + Len(w) <= Len(t)
    /\ \A k \in 1..Len(w) : t[i + k] = w[k]

\* "^" under the m flag
AtLineStart(t, i) == i = 0 \/ At(t, i - 1) \in LineTerminators

\* "$" under the m flag
AtLineEnd(t, i) == i = Len(t) \/ At(t, i) \in LineTerminators

(***************************************************************************)
(* detectChapters: the five heading patterns (chunker.ts 53-64).           *)
(* A match is [found, index, end, g1, g2, g3]: index and end delimit       *)
(* match[0]; g1..g3 are the capture groups, <<>> for a group that is       *)
(* undefined or empty (the source only tests the groups for truthiness).   *)
(***************************************************************************)
NoMatch == [found |-> FALSE, index |-> 0, end |-> 0,
            g1 |-> <<>>, g2 |-> <<>>, g3 |-> <<>>]

Keywords(k) ==
    CASE k = 1 -> << <<"C","H","A","P","T","E","R">>, <<"C","h","a","p","t","e","r">> >>
      [] k = 2 -> << <<"B","O","O","K">>, <<"B","o","o","k">> >>
      [] k = 3 -> << <<"P","A","R","T">>, <<"P","a","r","t">> >>

\* the alternative of (CHAPTER|Chapter) etc. that matches at i, <<>> if none
KeywordAt(k, t, i) ==
    IF StartsWithAt(t, i, Keywords(k)[1]) THEN Keywords(k)[1]
    ELSE IF StartsWithAt(t, i, Keywords(k)[2]) THEN Keywords(k)[2]
    ELSE <<>>

\* end of the number token ([IVXLCDM]+|\d+|[A-Za-z]+) that starts at j, tried
\* in that order; the last alternative belongs to the CHAPTER pattern only.
\* The rest of each pattern matches whatever follows, so the first
\* alternative that matches is never backtracked.  j if no alternative matches.
NumberTokenEnd(k, t, j) ==
    IF j >= Len(t) THEN j
    ELSE IF At(t, j) \in RomanChars THEN RunEnd(t, j, RomanChars)
    ELSE IF At(t, j) \in Digits THEN RunEnd(t, j, Digits)
    ELSE IF k = 1 /\ At(t, j) \in Letters THEN RunEnd(t, j, Letters)
    ELSE j

\* /^(CHAPTER|Chapter)\s+([IVXLCDM]+|\d+|[A-Za-z]+)[\.\:\s]*(.*)$/gm and the
\* BOOK and PART patterns, tried at position i
KeywordPatternAt(k, t, i) ==
    LET kw     == KeywordAt(k, t, i)
        wsFrom == i + Len(kw)
        numFrom == RunEnd(t, wsFrom, WhiteSpace)
        numEnd == NumberTokenEnd(k, t, numFrom)
        sepEnd == RunEnd(t, numEnd, {".", ":"} \cup WhiteSpace)
        end    == RunEndNot(t, sepEnd, LineTerminators)
    IN  IF /\ AtLineStart(t, i)
           /\ kw # <<>>
           /\ numFrom > wsFrom
           /\ numEnd > numFrom
        THEN [found |-> TRUE, index |-> i, end |-> end, g1 |-> kw,
              g2 |-> Slice(t, numFrom, numEnd), g3 |-> Slice(t, sepEnd, end)]
        ELSE NoMatch

\* /^([IVXLCDM]+)\.\s*(.*)$/gm tried at position i: the title remainder is
\* capture group 2 of this pattern, and there is no group 3
RomanPatternAt(t, i) ==
    LET numEnd == RunEnd(t, i, RomanChars)
        wsEnd  == RunEnd(t, numEnd + 1, WhiteSpace)
        end    == RunEndNot(t, wsEnd, LineTerminators)
    IN  IF /\ AtLineStart(t, i)
           /\ numEnd > i
           /\ numEnd < Len(t)
           /\ At(t, numEnd) = "."
        THEN [found |-> TRUE, index |-> i, end |-> end, g1 |-> Slice(t, i, numEnd),
              g2 |-> Slice(t, wsEnd, end), g3 |-> <<>>]
        ELSE NoMatch

\* /^([A-Z][A-Z\s\-\']{5,50})$/gm tried at position i: the greedy run is cut
\* back to the longest length in 5..50 that ends at a line end
AllCapsPatternAt(t, i) ==
    LET run  == RunEnd(t, i + 1, UpperCase \cup WhiteSpace \cup {"-", "'"})
        most == Min(50, run - (i + 1))
        fits == {n \in 5..most : AtLineEnd(t, i + 1 + n)}
        n    == CHOOSE m \in fits : \A o \in fits : o <= m
    IN  IF /\ AtLineStart(t, i)
           /\ i < Len(t)
           /\ At(t, i) \in UpperCase
           /\ fits # {}
        THEN [found |-> TRUE, index |-> i, end |-> i + 1 + n,
              g1 |-> Slice(t, i, i + 1 + n), g2 |-> <<>>, g3 |-> <<>>]
        ELSE NoMatch

\* chapterPatterns[k - 1] tried at position i
PatternAt(k, t, i) ==
    CASE k \in 1..3 -> KeywordPatternAt(k, t, i)
      [] k = 4 -> RomanPatternAt(t, i)
      [] k = 5 -> AllCapsPatternAt(t, i)

\* the positions from lastIndex on at which pattern k matches
MatchPositions(k, t, lastIndex) ==
    {i \in lastIndex..Len(t) : PatternAt(k, t, i).found}

\* lastIndex after the match m: its end, one more after an empty match
LastIndexAfter(m) == IF m.end > m.index THEN m.end ELSE m.index + 1

\* the while loop over pattern.exec (chunker.ts 70): every match of pattern k
\* from lastIndex on; exec returns the match at the first position at which
\* the pattern matches, and the next search resumes at the end of that match
RECURSIVE ExecAll(_, _, _)
RECURSIVE ExecFirstOf(_, _, _)
RECURSIVE ExecNextAfter(_, _, _)
ExecNextAfter(k, t, m) == <<m>> \o ExecAll(k, t, LastIndexAfter(m))

ExecFirstOf(k, t, hits) ==
    IF hits = {} THEN <<>> ELSE ExecNextAfter(k, t, PatternAt(k, t, Least(hits)))

ExecAll(k, t, lastIndex) == ExecFirstOf(k, t, MatchPositions(k, t, lastIndex))

(***************************************************************************)
(* Chapter numbers (chunker.ts 74-85, 140-164).  A number | null of the    *)
(* source is [some |-> BOOLEAN, val |-> Int].                              *)
(***************************************************************************)
Null == [some |-> FALSE, val |-> 0]

Some(n) == [some |-> TRUE, val |-> n]

DigitValue(c) ==
    CASE c = "0" -> 0 [] c = "1" -> 1 [] c = "2" -> 2 [] c = "3" -> 3
      [] c = "4" -> 4 [] c = "5" -> 5 [] c = "6" -> 6 [] c = "7" -> 7
      [] c = "8" -> 8 [] c = "9" -> 9

\* value of the decimal digits s[1..n]
RECURSIVE DecimalValue(_, _)
DecimalValue(s, n) ==
    IF n = 0 THEN 0 ELSE 10 * DecimalValue(s, n - 1) + DigitValue(s[n])

\* parseInt(s, 10): leading white space is skipped, then an optional sign and
\* the longest run of digits are read; NaN (Null) when there is no digit
parseInt(s) ==
    LET from    == RunEnd(s, 0, WhiteSpace)
        signed  == from < Len(s) /\ At(s, from) \in {"+", "-"}
        digFrom == IF signed THEN from + 1 ELSE from
        digEnd  == RunEnd(s, digFrom, Digits)
        abs     == DecimalValue(Slice(s, digFrom, digEnd), digEnd - digFrom)
    IN  IF digEnd = digFrom THEN Null
        ELSE IF signed /\ At(s, from) = "-" THEN Some(0 - abs)
        ELSE Some(abs)

UpperSeq == <<"A","B","C","D","E","F","G","H","I","J","K","L","M",
              "N","O","P","Q","R","S","T","U","V","W","X","Y","Z">>

LowerSeq == <<"a","b","c","d","e","f","g","h","i","j","k","l","m",
              "n","o","p","q","r","s","t","u","v","w","x","y","z">>

\* String.prototype.toUpperCase, one character
ToUpperChar(c) ==
    IF c \in LowerCase
    THEN UpperSeq[CHOOSE k \in 1..26 : LowerSeq[k] = c]
    ELSE c

\* romanMap (chunker.ts 141-144); 0 stands for a missing key
romanMap(c) ==
    CASE c = "I" -> 1 [] c = "V" -> 5 [] c = "X" -> 10 [] c = "L" -> 50
      [] c = "C" -> 100 [] c = "D" -> 500 [] c = "M" -> 1000
      [] OTHER -> 0

\* RomanLoop as it would be without the subtractive rule
RECURSIVE RomanLoopAdditive(_, _, _, _)
RomanLoopAdditive(upper, i, result, prevValue) ==
    IF i < 0 THEN [ok |-> TRUE, result |-> result]
    ELSE LET value == romanMap(At(upper, i))
         IN  IF value = 0 THEN [ok |-> FALSE, result |-> 0]
             ELSE RomanLoopAdditive(upper, i - 1, result + value, value)

\* the loop of romanToInt from index i down to 0; [ok, result]
RECURSIVE RomanLoop(_, _, _, _)
RomanLoop(upper, i, result, prevValue) ==
    IF i < 0 THEN [ok |-> TRUE, result |-> result]
    ELSE LET value == romanMap(At(upper, i))
         IN  IF value = 0 THEN [ok |-> FALSE, result |-> 0]
             ELSE RomanLoop(upper, i - 1,
                            IF value < prevValue THEN result - value ELSE result + value,
                            value)

romanToInt(roman) ==
    LET upper == [k \in 1..Len(roman) |-> ToUpperChar(roman[k])]
        r     == RomanLoop(upper, Len(upper) - 1, 0, 0)
    IN  IF r.ok /\ r.result > 0 THEN Some(r.result) ELSE Null

\* chunker.ts 78-84: the parsed integer, the roman numeral value if it is NaN
IntegerOrRoman(num, token) == IF num.some THEN num ELSE romanToInt(token)

\* chunker.ts 74-85: the number of a match, from capture group 2
ChapterNum(m) ==
    IF m.g2 = <<>> THEN Null ELSE IntegerOrRoman(parseInt(m.g2), m.g2)

\* chunker.ts 87-91: the title of a match
ChapterTitle(t, m) ==
    IF Trim(m.g3) # <<>>
    THEN m.g1 \o <<" ">> \o m.g2 \o <<":", " ">> \o Trim(m.g3)
    ELSE Trim(Slice(t, m.index, m.end))

\* the entry pushed on chapterMatches for a match (chunker.ts 93)
ChapterMatch(t, m) ==
    [position |-> m.index, title |-> ChapterTitle(t, m), number |-> ChapterNum(m)]

\* the chapterMatches entries of the matches ms
ChapterMatches(t, ms) == [j \in 1..Len(ms) |-> ChapterMatch(t, ms[j])]

\* the matches of pattern k as chapterMatches entries
PatternMatches(k, t) == ChapterMatches(t, ExecAll(k, t, 0))

\* chapterMatches after the loop over the first k patterns (chunker.ts 68-95)
RECURSIVE MatchesOfPatterns(_, _)
MatchesOfPatterns(k, t) ==
    IF k = 0 THEN <<>> ELSE MatchesOfPatterns(k - 1, t) \o PatternMatches(k, t)

\* chapterMatches after the loop over the five patterns
AllMatches(t) == MatchesOfPatterns(5, t)

\* Array.prototype.sort with (a, b) => a.position - b.position is stable:
\* an entry goes after every entry whose position is not greater
RECURSIVE InsertByPosition(_, _)
InsertByPosition(sorted, m) ==
    IF sorted = <<>> THEN <<m>>
    ELSE IF sorted[Len(sorted)].position <= m.position THEN Append(sorted, m)
    ELSE Append(InsertByPosition(SubSeq(sorted, 1, Len(sorted) - 1), m),
                sorted[Len(sorted)])

RECURSIVE SortByPosition(_, _)
SortByPosition(ms, n) ==
    IF n = 0 THEN <<>> ELSE InsertByPosition(SortByPosition(ms, n - 1), ms[n])

\* the distance under which a match is dropped as a duplicate (chunker.ts 103)
DedupDistance == 100

\* the filter callback of chunker.ts 100-104, for the 1-based index i of the
\* sorted array: the comparison is with the entry before it in that array
KeepMatch(sorted, i) ==
    i = 1 \/ sorted[i].position - sorted[i - 1].position > DedupDistance

RECURSIVE FilterMatches(_, _)
FilterMatches(sorted, n) ==
    IF n = 0 THEN <<>>
    ELSE IF KeepMatch(sorted, n)
         THEN Append(FilterMatches(sorted, n - 1), sorted[n])
         ELSE FilterMatches(sorted, n - 1)

\* BuildChapter as it would be if every chapter ran to the end of the text
BuildChapterToEnd(t, deduped, i) ==
    [title |-> deduped[i].title, hasTitle |-> TRUE, number |-> deduped[i].number,
     startPosition |-> deduped[i].position, endPosition |-> Len(t),
     text |-> Slice(t, deduped[i].position, Len(t))]

\* the chapter built from dedupedMatches[i] (chunker.ts 107-121)
BuildChapter(t, deduped, i) ==
    LET startPosition == deduped[i].position
        endPosition   == IF i < Len(deduped) THEN deduped[i + 1].position ELSE Len(t)
    IN  [title |-> deduped[i].title, hasTitle |-> TRUE, number |-> deduped[i].number,
         startPosition |-> startPosition, endPosition |-> endPosition,
         text |-> Slice(t, startPosition, endPosition)]

\* WholeTextChapter as it would be if it ended one character early
WholeTextChapterCutShort(t) ==
    [title |-> <<>>, hasTitle |-> FALSE, number |-> Null,
     startPosition |-> 0, endPosition |-> Len(t) - 1,
     text |-> SubSeq(t, 1, Len(t) - 1)]

\* the chapter pushed when nothing was detected (chunker.ts 124-132)
WholeTextChapter(t) ==
    [title |-> <<>>, hasTitle |-> FALSE, number |-> Null,
     startPosition |-> 0, endPosition |-> Len(t), text |-> t]

\* chunker.ts 107-132: the chapters of the deduplicated matches
ChaptersOf(t, deduped) ==
    IF Len(deduped) = 0 THEN <<WholeTextChapter(t)>>
    ELSE [i \in 1..Len(deduped) |-> BuildChapter(t, deduped, i)]

\* chunker.ts 98
SortMatches(ms) == SortByPosition(ms, Len(ms))

\* chunker.ts 100-104
Deduplicate(sorted) == FilterMatches(sorted, Len(sorted))

detectChapters(t) == ChaptersOf(t, Deduplicate(SortMatches(AllMatches(t))))

(***************************************************************************)
(* Text measurement and splitting (chunker.ts 169-194).                    *)
(***************************************************************************)
CeilDiv(a, b) == (a + b - 1) \div b

\* estimateTokens as it would be if it always used 4 characters per token
estimateTokensByDefault(t, charsPerToken) == CeilDiv(Len(t), 4)

\* Math.ceil(text.length / charsPerToken)
estimateTokens(t, charsPerToken) == CeilDiv(Len(t), charsPerToken)

\* end of the separator that matches at position q, q itself when none does:
\*   "ws"        /\s+/             (countWords)
\*   "paragraph" /\n\n+/           (splitAtParagraphs)
\*   "sentence"  /(?<=[.!?])\s+/   (splitAtSentences)
SeparatorEnd(kind, t, q) ==
    CASE kind = "ws" -> RunEnd(t, q, WhiteSpace)
      [] kind = "paragraph" ->
            LET e == RunEnd(t, q, {"\n"}) IN IF e >= q + 2 THEN e ELSE q
      [] kind = "sentence" ->
            IF q > 0 /\ At(t, q - 1) \in SentenceEnders
            THEN RunEnd(t, q, WhiteSpace) ELSE q

\* the characters the separators of a kind are made of
SeparatorChars(kind) == IF kind = "paragraph" THEN {"\n"} ELSE WhiteSpace

\* start of the maximal run of characters of S that reaches position x
RECURSIVE RunStartBefore(_, _, _)
RunStartBefore(t, x, S) ==
    IF x = 0 \/ At(t, x - 1) \notin S THEN x ELSE RunStartBefore(t, x - 1, S)

\* position x lies inside a separator: a match starts only at the start of a
\* run of separator characters, and takes the whole run
InSeparator(kind, t, x) ==
    /\ At(t, x) \in SeparatorChars(kind)
    /\ SeparatorEnd(kind, t, RunStartBefore(t, x, SeparatorChars(kind))) > x

\* a separator is matched at position q: the search, resumed after the
\* previous separator, finds its leftmost match there
SeparatorStartsAt(kind, t, q) ==
    /\ q < Len(t)
    /\ SeparatorEnd(kind, t, q) > q
    /\ q = 0 \/ ~InSeparator(kind, t, q - 1)

\* start of the piece that ends at position q: the end of the separator
\* before it, or the start of the text
RECURSIVE PieceStart(_, _, _)
PieceStart(kind, t, q) ==
    IF q = 0 \/ InSeparator(kind, t, q - 1) THEN q ELSE PieceStart(kind, t, q - 1)

\* String.prototype.split with a separator that matches no empty string:
\* the pieces that end at the positions a..(b - 1), in order; a piece ends
\* where a separator starts and at the end of the text
RECURSIVE PiecesEndingIn(_, _, _, _)
PiecesEndingIn(kind, t, a, b) ==
    IF b - a = 1
    THEN IF a = Len(t) \/ SeparatorStartsAt(kind, t, a)
         THEN <<Slice(t, PieceStart(kind, t, a), a)>>
         ELSE <<>>
    ELSE PiecesEndingIn(kind, t, a, (a + b) \div 2)
             \o PiecesEndingIn(kind, t, (a + b) \div 2, b)

Split(kind, t) == PiecesEndingIn(kind, t, 0, Len(t) + 1)

\* pieces.filter(p => p.trim().length > 0)
RECURSIVE KeepNonBlank(_, _)
KeepNonBlank(pieces, n) ==
    IF n = 0 THEN <<>>
    ELSE IF Len(Trim(pieces[n])) > 0
         THEN Append(KeepNonBlank(pieces, n - 1), pieces[n])
         ELSE KeepNonBlank(pieces, n - 1)

\* pieces.filter(p => p.trim().length > 0), all of pieces
NonBlank(pieces) == KeepNonBlank(pieces, Len(pieces))

\* words.filter(word => word.length > 0).length
CountNonEmpty(words) == Cardinality({k \in 1..Len(words) : Len(words[k]) > 0})

\* text.split(/\s+/).filter(word => word.length > 0).length
countWords(t) == CountNonEmpty(Split("ws", t))

splitAtParagraphs(t) == NonBlank(Split("paragraph", t))

splitAtSentences(t) == NonBlank(Split("sentence", t))

(***************************************************************************)
(* chunkChapter (chunker.ts 199-300).  The state of its loops is           *)
(* [chunks, currentChunk, chunkStartOffset, currentOffset], with           *)
(* sentenceSplit recording that the sentence-level branch was taken.       *)
(***************************************************************************)
OptionKeys == {"targetTokens", "maxTokens", "minTokens", "charsPerToken"}

DEFAULT_OPTIONS ==
    [targetTokens |-> 3000, maxTokens |-> 4000, minTokens |-> 500, charsPerToken |-> 4]

\* { ...DEFAULT_OPTIONS, ...options } for a Partial<ChunkOptions>
MergeOptions(o) ==
    [k \in OptionKeys |-> IF k \in DOMAIN o THEN o[k] ELSE DEFAULT_OPTIONS[k]]

TargetChars(opts) == opts.targetTokens * opts.charsPerToken

MaxChars(opts) == opts.maxTokens * opts.charsPerToken

MinChars(opts) == opts.minTokens * opts.charsPerToken

\* the text of a flushed chunk: currentChunk.trim()
FlushText(currentChunk) == Trim(currentChunk)

\* Flush as it would be if the buffer were emptied instead of restarted with
\* the paragraph or sentence that caused the flush
FlushLosingNext(st, endOffset, next) ==
    [st EXCEPT !.chunks = Append(@, [text |-> FlushText(st.currentChunk),
                                     startOffset |-> st.chunkStartOffset,
                                     endOffset |-> endOffset,
                                     bufferLength |-> Len(st.currentChunk)]),
               !.currentChunk = <<>>,
               !.chunkStartOffset = st.currentOffset]

\* chunks.push({text: currentChunk.trim(), startOffset: chunkStartOffset,
\* endOffset}) followed by currentChunk = next, chunkStartOffset = currentOffset;
\* bufferLength is not a field of the source's chunk: it records
\* currentChunk.length at the push
Flush(st, endOffset, next) ==
    [st EXCEPT !.chunks = Append(@, [text |-> FlushText(st.currentChunk),
                                     startOffset |-> st.chunkStartOffset,
                                     endOffset |-> endOffset,
                                     bufferLength |-> Len(st.currentChunk)]),
               !.currentChunk = next,
               !.chunkStartOffset = st.currentOffset]

\* OverflowFlush as it would be without the test of the buffer's size
OverflowFlushAnySize(st, paragraphWithBreak, opts) ==
    Len(st.currentChunk) + Len(paragraphWithBreak) > MaxChars(opts)

\* chunker.ts 231: the buffer is flushed before a paragraph that would push
\* it over maxChars
OverflowFlush(st, paragraphWithBreak, opts) ==
    /\ Len(st.currentChunk) + Len(paragraphWithBreak) > MaxChars(opts)
    /\ Len(st.currentChunk) >= MinChars(opts)

\* chunker.ts 258: the buffer is flushed before a sentence that would push it
\* over targetChars
SentenceFlush(st, sentenceWithSpace, opts) ==
    /\ Len(st.currentChunk) + Len(sentenceWithSpace) > TargetChars(opts)
    /\ Len(st.currentChunk) >= MinChars(opts)

\* SentenceStep as it would be if a sentence replaced the buffer (= for +=)
SentenceStepOverwriting(st, sentence, opts) ==
    LET sentenceWithSpace ==
            (IF st.currentChunk # <<>> THEN <<" ">> ELSE <<>>) \o sentence
        after ==
            IF SentenceFlush(st, sentenceWithSpace, opts)
            THEN Flush(st, st.currentOffset, sentence)
            ELSE [st EXCEPT !.currentChunk = sentenceWithSpace]
    IN  [after EXCEPT !.currentOffset = @ + Len(sentence) + 1]

\* one iteration of the loop over the sentences (chunker.ts 255-270)
SentenceStep(st, sentence, opts) ==
    LET sentenceWithSpace ==
            (IF st.currentChunk # <<>> THEN <<" ">> ELSE <<>>) \o sentence
        after ==
            IF SentenceFlush(st, sentenceWithSpace, opts)
            THEN Flush(st, st.currentOffset, sentence)
            ELSE [st EXCEPT !.currentChunk = @ \o sentenceWithSpace]
    IN  [after EXCEPT !.currentOffset = @ + Len(sentence) + 1]

RECURSIVE SentenceLoop(_, _, _, _)
SentenceLoop(st, sentences, n, opts) ==
    IF n = 0 THEN st
    ELSE SentenceStep(SentenceLoop(st, sentences, n - 1, opts), sentences[n], opts)

\* chunker.ts 243-251: the buffer is flushed before the sentences are read
FlushBeforeSentences(st, opts) ==
    IF Len(st.currentChunk) >= MinChars(opts)
    THEN Flush(st, st.currentOffset, <<>>)
    ELSE st

\* the loop over all of sentences
AllSentences(st, sentences, opts) == SentenceLoop(st, sentences, Len(sentences), opts)

\* the sentence-level branch (chunker.ts 241-271)
SplitLargeParagraph(st, paragraph, opts) ==
    AllSentences([FlushBeforeSentences(st, opts) EXCEPT !.sentenceSplit = TRUE],
                 splitAtSentences(paragraph), opts)

\* one iteration of the loop over the paragraphs (chunker.ts 227-288)
ParagraphStep(st, paragraph, opts) ==
    LET paragraphWithBreak ==
            (IF st.currentChunk # <<>> THEN <<"\n", "\n">> ELSE <<>>) \o paragraph
        after ==
            IF OverflowFlush(st, paragraphWithBreak, opts)
            THEN Flush(st, st.currentOffset, paragraph)
            ELSE IF Len(paragraph) > MaxChars(opts)
            THEN SplitLargeParagraph(st, paragraph, opts)
            ELSE IF Len(st.currentChunk) >= TargetChars(opts)
            THEN Flush(st, st.currentOffset, paragraph)
            ELSE [st EXCEPT !.currentChunk = @ \o paragraphWithBreak]
    IN  [after EXCEPT !.currentOffset = @ + Len(paragraph) + 2]

RECURSIVE ParagraphLoop(_, _, _, _)
ParagraphLoop(st, paragraphs, n, opts) ==
    IF n = 0 THEN st
    ELSE ParagraphStep(ParagraphLoop(st, paragraphs, n - 1, opts), paragraphs[n], opts)

\* chunker.ts 212: the chapter is returned as one chunk
FitsInOneChunk(chapter, opts) == Len(chapter.text) <= MaxChars(opts)

\* WholeChapterChunk as it would be if the text were trimmed like the text of
\* a flushed chunk
WholeChapterChunkTrimmed(chapter, globalOffset) ==
    [text |-> Trim(chapter.text),
     startOffset |-> globalOffset + chapter.startPosition,
     endOffset |-> globalOffset + chapter.endPosition]

\* the chapter text pushed as one chunk (chunker.ts 213-217)
WholeChapterChunk(chapter, globalOffset) ==
    [text |-> chapter.text,
     startOffset |-> globalOffset + chapter.startPosition,
     endOffset |-> globalOffset + chapter.endPosition]

\* the state of chunkChapter before its loop (chunker.ts 209, 223-225)
StartState(chapter, globalOffset) ==
    [chunks |-> <<>>, currentChunk |-> <<>>,
     chunkStartOffset |-> globalOffset + chapter.startPosition,
     currentOffset |-> globalOffset + chapter.startPosition,
     sentenceSplit |-> FALSE]

\* the loop over all of paragraphs
AllParagraphs(st, paragraphs, opts) ==
    ParagraphLoop(st, paragraphs, Len(paragraphs), opts)

\* chunker.ts 290-297: the last chunk
FinalFlush(looped, endOffset) ==
    IF Len(looped.currentChunk) > 0 THEN Flush(looped, endOffset, <<>>) ELSE looped

\* the state of chunkChapter when it returns
ChunkChapterRun(chapter, opts, globalOffset) ==
    IF FitsInOneChunk(chapter, opts)
    THEN [StartState(chapter, globalOffset)
            EXCEPT !.chunks = <<WholeChapterChunk(chapter, globalOffset)>>]
    ELSE FinalFlush(AllParagraphs(StartState(chapter, globalOffset),
                                  splitAtParagraphs(chapter.text), opts),
                    globalOffset + chapter.endPosition)

chunkChapter(chapter, opts, globalOffset) ==
    ChunkChapterRun(chapter, opts, globalOffset).chunks

(***************************************************************************)
(* chunkBook (chunker.ts 306-346).  chapterIndex is not a field of the     *)
(* source's BookChunk: it records the chapter a chunk was produced from.   *)
(***************************************************************************)
\* IsChapterStart as it would be with a 1-based index
IsChapterStartOneBased(i) == i = 1

\* chunker.ts 330
IsChapterStart(i) == i = 0

\* the BookChunk pushed for chapterChunks[i] (0-based i) of chapters[c]
BookChunk(chapter, c, chunk, i, chunkNumber, opts) ==
    [chunkNumber |-> chunkNumber,
     totalChunks |-> 0,
     text |-> chunk.text,
     tokenCount |-> estimateTokens(chunk.text, opts.charsPerToken),
     wordCount |-> countWords(chunk.text),
     chapterTitle |-> chapter.title,
     chapterNumber |-> chapter.number,
     isChapterStart |-> IsChapterStart(i),
     startPosition |-> chunk.startOffset,
     endPosition |-> chunk.endOffset,
     chapterIndex |-> c]

\* the loop over chapterChunks[0..n-1] (chunker.ts 319-336); the state is
\* [allChunks, chunkNumber]
RECURSIVE PushChunks(_, _, _, _, _, _)
PushChunks(acc, chapter, c, chapterChunks, n, opts) ==
    IF n = 0 THEN acc
    ELSE LET prev == PushChunks(acc, chapter, c, chapterChunks, n - 1, opts)
         IN  [allChunks |-> Append(prev.allChunks,
                                   BookChunk(chapter, c, chapterChunks[n], n - 1,
                                             prev.chunkNumber, opts)),
              chunkNumber |-> prev.chunkNumber + 1]

\* the loop over all of chapterChunks
PushChapterChunks(acc, chapter, c, chapterChunks, opts) ==
    PushChunks(acc, chapter, c, chapterChunks, Len(chapterChunks), opts)

\* AllChunks as it would be with chunkNumber starting at 0
RECURSIVE AllChunksFromZero(_, _, _)
AllChunksFromZero(chs, n, opts) ==
    IF n = 0 THEN [allChunks |-> <<>>, chunkNumber |-> 0]
    ELSE PushChapterChunks(AllChunksFromZero(chs, n - 1, opts), chs[n], n,
                           chunkChapter(chs[n], opts, 0), opts)

\* the loop over chapters[1..n] (chunker.ts 313-337)
RECURSIVE AllChunks(_, _, _)
AllChunks(chs, n, opts) ==
    IF n = 0 THEN [allChunks |-> <<>>, chunkNumber |-> 1]
    ELSE PushChapterChunks(AllChunks(chs, n - 1, opts), chs[n], n,
                           chunkChapter(chs[n], opts, 0), opts)

\* chunker.ts 340-343
SetTotalChunks(allChunks) ==
    [j \in 1..Len(allChunks) |-> [allChunks[j] EXCEPT !.totalChunks = Len(allChunks)]]

\* chunker.ts 313-345 for the detected chapters chs
ChunksOfChapters(chs, opts) ==
    SetTotalChunks(AllChunks(chs, Len(chs), opts).allChunks)

chunkBook(t, o) == ChunksOfChapters(detectChapters(t), MergeOptions(o))

(***************************************************************************)
(* The database behind the HTTP API (prisma models of BUILDPLAN.md).  db   *)
(* is a record of tables: agent and book are functions from ids to rows,   *)
(* readingSession a function from <<agent, book>> (the unique key          *)
(* agentId_bookId) to rows, review a function from the reading session key *)
(* (the unique readingSessionId) to rows, reply a sequence of rows and     *)
(* reaction a set of rows (unique reviewId_agentId_type).  Timestamps,     *)
(* texts and progressPercent are left out.                                 *)
(***************************************************************************)
AgentIds == {"a1", "a2"}

\* the key of a request that carries no API key of a registered agent
NoAgent == "anonymous"

\* books of the library: b1 is available, b2 is not
BookIds == {"b1", "b2"}

\* a book id that is in no row of db.book
NoBook == "b0"

ChunkCount(b) == IF b = "b1" THEN 2 ELSE 1

VALID_REACTIONS == {"insightful", "disagree", "new-perspective", "same", "bookmarked"}

EmptyTable == [x \in {} |-> 0]

NewBook(b) ==
    [available |-> b = "b1", chunkCount |-> ChunkCount(b),
     currentlyReading |-> 0, totalCheckouts |-> 0, totalReads |-> 0,
     reviewCount |-> 0, ratingCount |-> 0]

\* the database before the first request: the ingested books, nothing else
InitialDb ==
    [agent |-> EmptyTable, book |-> [b \in BookIds |-> NewBook(b)],
     readingSession |-> EmptyTable, review |-> EmptyTable,
     reply |-> <<>>, reaction |-> {}]

NoRequest == [route |-> "none", agent |-> NoAgent]

NoResponse == [status |-> 0]

\* NextResponse.json(..., {status})
Respond(status) == [status |-> status]

\* f with the row r at key k (prisma create)
Insert(f, k, r) == [x \in DOMAIN f \cup {k} |-> IF x = k THEN r ELSE f[x]]

\* no request was handled yet
ApiIdle == db = InitialDb /\ request = NoRequest /\ response = NoResponse

\* rateLimitStore = new Map() (rate-limit.ts 21) at time 0, nothing allowed yet
RateIdle == rateLimitStore = EmptyTable /\ now = 0 /\ allowedLog = <<>>

\* no checkout request is in progress
RaceIdle == pending = <<>> /\ createLog = <<>>

\* getBookStats is not called and no chunkBook invocation is in progress
CallsIdle == stats = <<>> /\ invocations = <<>> /\ regexLastIndex = <<>> /\ RaceIdle

\* authenticateAgent (auth.ts 64-105): an agent's key hash matches the key;
\* FALSE stands for the AuthError
authenticateAgent(d, key) == key \in DOMAIN d.agent

\* requireVerifiedAgent (auth.ts 111-113)
requireVerifiedAgent(d, key) == authenticateAgent(d, key)

(***************************************************************************)
(* Inputs.  The texts given to the chunker are drawn from four families:   *)
(* short prose assembled from a few pieces, texts assembled from heading   *)
(* and filler lines (long enough for headings to lie more than             *)
(* DedupDistance apart), chapters assembled from short paragraphs, and the *)
(* two-chapter scenario text.                                              *)
(***************************************************************************)
MaxPieces == 5

MaxLines == 4

MaxParas == 9

\* n copies of the character c
Repeat(c, n) == [k \in 1..n |-> c]

RECURSIVE Concatenations(_, _)
\* every concatenation of at most n members of pieces
Concatenations(pieces, n) ==
    IF n = 0 THEN {<<>>}
    ELSE LET shorter == Concatenations(pieces, n - 1)
         IN  shorter \cup {a \o b : a \in shorter, b \in pieces}

RECURSIVE JoinedWith(_, _, _)
\* every sequence of 1..n members of items, joined with sep
JoinedWith(items, sep, n) ==
    IF n = 0 THEN {}
    ELSE IF n = 1 THEN items
    ELSE LET shorter == JoinedWith(items, sep, n - 1)
         IN  shorter \cup {a \o sep \o b : a \in shorter, b \in items}

ProsePieces == { <<"a">>, <<"b", ".">>, <<" ">>, <<"\n">> }

ShortHeading == <<"C","H","A","P","T","E","R"," ","I">>

LongHeading == <<"I","I","."," ">> \o Repeat("x", 58)

FillerLine == Repeat("y", 101)

HeadedLines == { ShortHeading, LongHeading, FillerLine, <<>>, <<"a", ".", " ", "b">> }

ShortParagraphs == { <<"a">>, <<"a", " ", "b">> }

ScenarioText ==
    <<"C","H","A","P","T","E","R"," ","I","\n","\n","F","i","r",
      "s","t"," ","p","a","r","a","g","r","a","p","h",".","\n",
      "\n","C","H","A","P","T","E","R"," ","I","I","\n","\n","S",
      "e","c","o","n","d"," ","p","a","r","a","g","r","a","p",
      "h",".">>

Texts ==
    Concatenations(ProsePieces, MaxPieces)
        \cup JoinedWith(HeadedLines, <<"\n">>, MaxLines)
        \cup JoinedWith(ShortParagraphs, <<"\n", "\n">>, MaxParas)
        \cup {ScenarioText}

\* a policy far below the defaults: 2, 3 and 1 characters
TinyPolicy ==
    [targetTokens |-> 2, maxTokens |-> 3, minTokens |-> 1, charsPerToken |-> 1]

\* DEFAULT_OPTIONS with the token counts divided by 500
ScaledDefaultPolicy ==
    [targetTokens |-> 6, maxTokens |-> 8, minTokens |-> 1, charsPerToken |-> 4]

\* a partial override: the other three options keep their defaults
OnlyMaxPolicy == [maxTokens |-> 2]

\* a policy without a minimum chunk size
ZeroMinPolicy ==
    [targetTokens |-> 1, maxTokens |-> 2, minTokens |-> 0, charsPerToken |-> 1]

\* a policy whose minimum is its target: 2 characters
MinAtTargetPolicy ==
    [targetTokens |-> 2, maxTokens |-> 3, minTokens |-> 2, charsPerToken |-> 1]

\* the options argument of chunkBook; <<>> is {} (all defaults)
OptionInputs ==
    {<<>>, TinyPolicy, ScaledDefaultPolicy, OnlyMaxPolicy, ZeroMinPolicy,
     MinAtTargetPolicy}

(***************************************************************************)
(* The state machine: a text is given, and detectChapters or chunkBook is  *)
(* called on it.  chapters holds the chapters of the call (chunkBook       *)
(* detects them itself, chunker.ts 310), chunks the returned chunk list.   *)
(***************************************************************************)
Init ==
    /\ text \in Texts
    /\ options = <<>>
    /\ chapters = <<>>
    /\ chunks = <<>>
    /\ pc = "ready"
    /\ capturedToken = <<>>
    /\ chapterNum = Null
    /\ ApiIdle
    /\ RateIdle
    /\ CallsIdle

CallDetectChapters ==
    /\ pc = "ready"
    /\ chapters' = detectChapters(text)
    /\ pc' = "detected"
    /\ UNCHANGED <<text, options, chunks, capturedToken, chapterNum, apiVars, rateVars, callVars>>

CallChunkBook ==
    /\ pc = "ready"
    /\ \E o \in OptionInputs :
          /\ options' = o
          /\ chunks' = chunkBook(text, o)
    /\ chapters' = detectChapters(text)
    /\ pc' = "chunked"
    /\ UNCHANGED <<text, capturedToken, chapterNum, apiVars, rateVars, callVars>>

Next == CallDetectChapters \/ CallChunkBook

Spec == Init /\ [][Next]_vars

(***************************************************************************)
(* The chapter number of a captured token (chunker.ts 74-85):              *)
(* capturedToken is match[2] of a heading match, chapterNum the number     *)
(* computed from it.                                                       *)
(* Tokens are the strings of at most MaxTokenLen characters of             *)
(* TokenChars that do not start with white space (the patterns capture no  *)
(* such token), and the numerals and words of TokenExamples.               *)
(***************************************************************************)
MaxTokenLen == 3

TokenChars == {"I", "V", "X", "M", "m", "i", "A", "3", "0", " ", "-"}

RECURSIVE StringsOver(_, _)
StringsOver(S, n) ==
    IF n = 0 THEN {<<>>}
    ELSE StringsOver(S, n - 1) \cup
         {Append(w, c) : w \in {v \in StringsOver(S, n - 1) : Len(v) = n - 1}, c \in S}

TokenExamples ==
    {<<"M","C","M","X","C","I","X">>, <<"A","B","C">>, <<"O","n","e">>,
     <<"L","X","X","X","I","V">>, <<"C","D","X","L","I","V">>, <<"1","2","5">>,
     <<"c","i","v","i","l">>}

Tokens ==
    {w \in StringsOver(TokenChars, MaxTokenLen) : w # <<>> /\ w[1] \notin WhiteSpace}
        \cup TokenExamples

\* the chunker is not called
ChunkerIdle ==
    /\ text = <<>>
    /\ options = <<>>
    /\ chapters = <<>>
    /\ chunks = <<>>
    /\ pc = "ready"
    /\ capturedToken = <<>>
    /\ chapterNum = Null

NumInit ==
    /\ capturedToken \in Tokens
    /\ chapterNum = Null
    /\ pc = "ready"
    /\ text = <<>>
    /\ options = <<>>
    /\ chapters = <<>>
    /\ chunks = <<>>
    /\ ApiIdle
    /\ RateIdle
    /\ CallsIdle

\* chunker.ts 74-85 for a match whose group 2 is capturedToken
CallChapterNum ==
    /\ pc = "ready"
    /\ chapterNum' = ChapterNum([NoMatch EXCEPT !.found = TRUE, !.g2 = capturedToken])
    /\ pc' = "numbered"
    /\ UNCHANGED <<text, options, chapters, chunks, capturedToken, apiVars, rateVars, callVars>>

NumNext == CallChapterNum

NumSpec == NumInit /\ [][NumNext]_vars

(***************************************************************************)
(* Properties of the chunker.                                              *)
(***************************************************************************)
\* the merged options of the chunkBook call
Opts == MergeOptions(options)

Called == pc \in {"detected", "chunked"}

ChunkIndices == 1..Len(chunks)

\* the indices of the chunks produced from chapters[c]
ChunksOf(c) == {j \in ChunkIndices : chunks[j].chapterIndex = c}

\* C1: for a non-empty text the chapters returned by detectChapters cover
\* [0, text.length) exactly once: the first starts at 0, each ends where the
\* next starts, and the last ends at text.length.
C1_Coverage ==
    (Called /\ Len(text) > 0) =>
        /\ chapters[1].startPosition = 0
        /\ \A i \in 1..(Len(chapters) - 1) :
              chapters[i].endPosition = chapters[i + 1].startPosition
        /\ chapters[Len(chapters)].endPosition = Len(text)
        /\ \A i \in 1..Len(chapters) :
              chapters[i].startPosition <= chapters[i].endPosition

\* C2: the chunkNumber values of the list returned by chunkBook are 1..N in
\* list order, N the length of the list, and every totalChunks is N.
C2_GlobalNumbering ==
    pc = "chunked" =>
        \A j \in ChunkIndices :
            /\ chunks[j].chunkNumber = j
            /\ chunks[j].totalChunks = Len(chunks)

\* C2 witness: a returned list with chunks of two chapters, one of them
\* split into several chunks
C2_Witness ==
    /\ pc = "chunked"
    /\ Opts.minTokens >= 1
    /\ Len(chapters) >= 2
    /\ Len(chunks) >= 3
    /\ \E j \in ChunkIndices : chunks[j].chapterIndex = 2 /\ ~chunks[j].isChapterStart

\* C3: for a non-empty text every chunk returned by chunkBook has
\* wordCount >= 1 and a text that is not the empty string.
C3_NoEmptyChunk ==
    (pc = "chunked" /\ Len(text) > 0) =>
        \A j \in ChunkIndices :
            chunks[j].wordCount >= 1 /\ chunks[j].text # <<>>

\* C4: of the chunks of a chapter whose estimated size is at least
\* maxTokens, at most one has an estimated token count above maxTokens.
C4_AtMostOneOversized ==
    pc = "chunked" =>
        \A c \in 1..Len(chapters) :
            estimateTokens(chapters[c].text, Opts.charsPerToken) >= Opts.maxTokens =>
                Cardinality({j \in ChunksOf(c) :
                                chunks[j].tokenCount > Opts.maxTokens}) <= 1

\* C5: the two-chapter scenario text yields 2 chapters numbered 1 and 2,
\* and chunkBook (default options) yields 2 chunks with chunkNumber 1 and 2,
\* totalChunks 2 and isChapterStart true on both.
C5_Scenario ==
    /\ (Called /\ text = ScenarioText) =>
          /\ Len(chapters) = 2
          /\ chapters[1].number = Some(1)
          /\ chapters[2].number = Some(2)
    /\ (pc = "chunked" /\ text = ScenarioText /\ DOMAIN options = {}) =>
          /\ Len(chunks) = 2
          /\ \A j \in ChunkIndices :
                /\ chunks[j].chunkNumber = j
                /\ chunks[j].totalChunks = 2
                /\ chunks[j].isChapterStart

\* the chunks of chapters[c], in order
ChunkTextsOf(c) ==
    LET first == Least(ChunksOf(c))
    IN  [k \in 1..Cardinality(ChunksOf(c)) |-> chunks[first + k - 1].text]

\* no paragraph break (/\n\n+/) occurs in t
NoParagraphBreak(t) == Len(Split("paragraph", t)) = 1

\* C6: a chapter that is one paragraph longer than maxChars goes through the
\* sentence-level fallback and yields more than one chunk, none longer than
\* maxChars, each but the last ending with sentence-ending punctuation.
C6_SentenceFallback ==
    pc = "chunked" =>
        \A c \in 1..Len(chapters) :
            (NoParagraphBreak(chapters[c].text)
                /\ Len(chapters[c].text) > MaxChars(Opts)) =>
                LET texts == ChunkTextsOf(c)
                IN  /\ ChunkChapterRun(chapters[c], Opts, 0).sentenceSplit
                    /\ Len(texts) > 1
                    /\ \A k \in 1..Len(texts) : Len(texts[k]) <= MaxChars(Opts)
                    /\ \A k \in 1..(Len(texts) - 1) :
                          /\ texts[k] # <<>>
                          /\ texts[k][Len(texts[k])] \in SentenceEnders

\* paragraphs[i..j] joined with blank lines
RECURSIVE JoinParagraphs(_, _, _)
JoinParagraphs(paragraphs, i, j) ==
    IF i > j THEN <<>>
    ELSE IF i = j THEN paragraphs[i]
    ELSE JoinParagraphs(paragraphs, i, j - 1) \o <<"\n", "\n">> \o paragraphs[j]

\* texts[k..] are the paragraphs from i on, cut into groups of whole
\* consecutive paragraphs, each group joined with blank lines and trimmed
RECURSIVE WholeParagraphGroups(_, _, _, _)
WholeParagraphGroups(texts, k, paragraphs, i) ==
    IF k > Len(texts) THEN i > Len(paragraphs)
    ELSE \E j \in i..Len(paragraphs) :
            /\ texts[k] = Trim(JoinParagraphs(paragraphs, i, j))
            /\ WholeParagraphGroups(texts, k + 1, paragraphs, j + 1)

\* the options have the proportions of DEFAULT_OPTIONS
DefaultProportions(opts) ==
    /\ opts.charsPerToken = DEFAULT_OPTIONS.charsPerToken
    /\ opts.minTokens >= 1
    /\ opts.targetTokens * DEFAULT_OPTIONS.maxTokens
          = opts.maxTokens * DEFAULT_OPTIONS.targetTokens
    /\ opts.minTokens * DEFAULT_OPTIONS.maxTokens
          = opts.maxTokens * DEFAULT_OPTIONS.minTokens

\* the text is one chapter longer than maxChars whose paragraphs are all
\* shorter than minChars, chunked under options of the default proportions
ShortParagraphChapter ==
    /\ pc = "chunked"
    /\ DefaultProportions(Opts)
    /\ Len(chapters) = 1
    /\ Len(chapters[1].text) > MaxChars(Opts)
    /\ LET paragraphs == splitAtParagraphs(chapters[1].text)
       IN  \A i \in 1..Len(paragraphs) : Len(paragraphs[i]) < MinChars(Opts)

\* C7: a single chapter longer than maxChars made of paragraphs shorter than
\* minChars is split at paragraph boundaries only: every chunk is a run of
\* whole consecutive paragraphs, the sentence-level fallback does not run,
\* and every chunk but possibly the last has at most maxChars characters.
C7_ParagraphBoundaries ==
    ShortParagraphChapter =>
        LET texts == ChunkTextsOf(1)
        IN  /\ WholeParagraphGroups(texts, 1, splitAtParagraphs(chapters[1].text), 1)
            /\ ~ChunkChapterRun(chapters[1], Opts, 0).sentenceSplit
            /\ \A k \in 1..(Len(texts) - 1) : Len(texts[k]) <= MaxChars(Opts)

\* C7 witness: such a chapter, split into several chunks
C7_Witness == ShortParagraphChapter /\ Len(chunks) >= 2

\* C8: of the chunks of each chapter that produced a chunk, exactly one has
\* isChapterStart, and it has the smallest chunkNumber of that chapter.
C8_ChapterStartFlag ==
    pc = "chunked" =>
        \A c \in 1..Len(chapters) :
            ChunksOf(c) # {} =>
                /\ Cardinality({j \in ChunksOf(c) : chunks[j].isChapterStart}) = 1
                /\ \A j \in ChunksOf(c) :
                      chunks[j].isChapterStart =>
                          \A i \in ChunksOf(c) :
                              chunks[j].chunkNumber <= chunks[i].chunkNumber

\* C8 witness: two chapters that both produced several chunks
C8_Witness ==
    /\ pc = "chunked"
    /\ Opts.minTokens >= 1
    /\ Len(chapters) >= 2
    /\ \A c \in 1..2 : Cardinality(ChunksOf(c)) >= 2

\* C9: every chunk text returned by chunkBook is trimmed.
C9_Trimmed ==
    pc = "chunked" => \A j \in ChunkIndices : chunks[j].text = Trim(chunks[j].text)

\* C10: chunkBook returns at least one chunk for a non-empty text, and every
\* detected chapter yields at least one chunk.
C10_AtLeastOneChunk ==
    (pc = "chunked" /\ Len(text) > 0) =>
        /\ Len(chunks) >= 1
        /\ \A c \in 1..Len(chapters) : ChunksOf(c) # {}

\* the text has no heading match
NoHeading == Len(AllMatches(text)) = 0

\* C11: for a text without a heading match detectChapters returns one chapter
\* without title and number that spans the whole text, and chunkBook returns
\* one chunk when that text is no longer than maxChars.
C11_NoStructureFallback ==
    (Called /\ NoHeading) =>
        /\ Len(chapters) = 1
        /\ ~chapters[1].hasTitle
        /\ ~chapters[1].number.some
        /\ chapters[1].startPosition = 0
        /\ chapters[1].endPosition = Len(text)
        /\ chapters[1].text = text
        /\ (pc = "chunked" /\ Len(text) <= MaxChars(Opts)) => Len(chunks) = 1

\* C11 witness: a text of several words without heading chunked in one piece
C11_Witness ==
    /\ pc = "chunked"
    /\ NoHeading
    /\ Len(text) >= 3
    /\ Len(text) <= MaxChars(Opts)
    /\ Len(chunks) = 1

\* C12: the chapters returned by detectChapters are strictly ordered by
\* startPosition, each ends where the next starts, the last ends at
\* text.length, and the text of each is the substring of the input over its span.
C12_ContiguousChapters ==
    Called =>
        /\ \A i \in 1..(Len(chapters) - 1) :
              /\ chapters[i].startPosition < chapters[i + 1].startPosition
              /\ chapters[i].endPosition = chapters[i + 1].startPosition
        /\ chapters[Len(chapters)].endPosition = Len(text)
        /\ \A i \in 1..Len(chapters) :
              /\ chapters[i].startPosition <= chapters[i].endPosition
              /\ chapters[i].text =
                    SubSeq(text, chapters[i].startPosition + 1, chapters[i].endPosition)

\* C12 witness: two chapters detected after a preamble, from more matches
\* than chapters
C12_Witness ==
    /\ pc = "detected"
    /\ Len(chapters) >= 2
    /\ chapters[1].startPosition > 0
    /\ Len(AllMatches(text)) > Len(chapters)

\* the characters of t that are not white space, in order
RECURSIVE NonWhite(_)
NonWhite(t) ==
    IF t = <<>> THEN <<>>
    ELSE (IF Head(t) \in WhiteSpace THEN <<>> ELSE <<Head(t)>>) \o NonWhite(Tail(t))

\* the texts of the chunks with indices in js, concatenated in list order
RECURSIVE ConcatChunkTexts(_)
ConcatChunkTexts(js) ==
    IF js = {} THEN <<>>
    ELSE chunks[Least(js)].text \o ConcatChunkTexts(js \ {Least(js)})

\* C13: the texts of the chunks of a chapter, concatenated in order, are the
\* text of the chapter up to white space: no other character is lost,
\* duplicated or reordered.
C13_ContentPreserved ==
    pc = "chunked" =>
        \A c \in 1..Len(chapters) :
            NonWhite(ConcatChunkTexts(ChunksOf(c))) = NonWhite(chapters[c].text)

\* C13 witness: a chapter cut into several chunks by the sentence-level branch
C13_Witness ==
    /\ pc = "chunked"
    /\ \E c \in 1..Len(chapters) :
          /\ Cardinality(ChunksOf(c)) >= 3
          /\ ChunkChapterRun(chapters[c], Opts, 0).sentenceSplit

(***************************************************************************)
(* Properties of the chapter number.                                       *)
(***************************************************************************)
\* the number of leading decimal digits of w
LeadingDigits(w) ==
    CHOOSE n \in 0..Len(w) :
        /\ \A k \in 1..n : w[k] \in Digits
        /\ n < Len(w) => w[n + 1] \notin Digits

RECURSIVE Pow10(_)
Pow10(n) == IF n = 0 THEN 1 ELSE 10 * Pow10(n - 1)

RECURSIVE SumOver(_, _)
SumOver(f, S) ==
    IF S = {} THEN 0
    ELSE LET x == CHOOSE y \in S : TRUE IN f[x] + SumOver(f, S \ {x})

\* the value of the decimal numeral made of the leading digits of w
NumeralValue(w) ==
    LET n == LeadingDigits(w)
    IN  SumOver([k \in 1..n |-> DigitValue(w[k]) * Pow10(n - k)], 1..n)

Unsigned(w) == IF w # <<>> /\ w[1] \in {"+", "-"} THEN Tail(w) ELSE w

\* w reads as an integer: an optional sign and at least one digit lead it
ReadsAsInteger(w) == LeadingDigits(Unsigned(w)) > 0

IntegerValue(w) ==
    IF w[1] = "-" THEN 0 - NumeralValue(Unsigned(w)) ELSE NumeralValue(Unsigned(w))

RomanDigit(c) ==
    CASE c = "I" -> 1 [] c = "V" -> 5 [] c = "X" -> 10 [] c = "L" -> 50
      [] c = "C" -> 100 [] c = "D" -> 500 [] c = "M" -> 1000

\* the value of the roman numeral w under subtractive notation: a digit
\* smaller than the digit after it is subtracted, every other digit is added
RomanValue(w) ==
    SumOver([k \in 1..Len(w) |->
                IF k < Len(w) /\ RomanDigit(w[k]) < RomanDigit(w[k + 1])
                THEN 0 - RomanDigit(w[k]) ELSE RomanDigit(w[k])],
            1..Len(w))

IsRoman(w) == \A k \in 1..Len(w) : w[k] \in RomanChars

UpperCased(w) == [k \in 1..Len(w) |-> ToUpperChar(w[k])]

\* the numerals named by the claim
RomanExamples ==
    /\ capturedToken = <<"I","V">> => chapterNum = Some(4)
    /\ capturedToken = <<"I","X">> => chapterNum = Some(9)
    /\ capturedToken = <<"M","C","M","X","C","I","X">> => chapterNum = Some(1999)
    /\ capturedToken = <<"A","B","C">> => chapterNum = Null
    /\ capturedToken = <<"3">> => chapterNum = Some(3)

\* C14 as stated: the number of a token is its integer value when it reads as
\* an integer, otherwise its roman numeral value over I,V,X,L,C,D,M, and it is
\* absent when the token contains any other character.
C14_TokenNumber ==
    pc = "numbered" =>
        /\ RomanExamples
        /\ IF ReadsAsInteger(capturedToken)
           THEN chapterNum = Some(IntegerValue(capturedToken))
           ELSE IF IsRoman(capturedToken)
           THEN chapterNum = Some(RomanValue(capturedToken))
           ELSE chapterNum = Null

\* C14 amended: the roman numeral is read without regard to case; the
\* number is absent when the token contains a character that is not one of
\* I,V,X,L,C,D,M in either case.
C14_TokenNumberAnyCase ==
    pc = "numbered" =>
        /\ RomanExamples
        /\ IF ReadsAsInteger(capturedToken)
           THEN chapterNum = Some(IntegerValue(capturedToken))
           ELSE IF IsRoman(UpperCased(capturedToken))
           THEN chapterNum = Some(RomanValue(UpperCased(capturedToken)))
           ELSE chapterNum = Null

\* C14 witness: a subtractive numeral with a lower-case digit got its value
C14_Witness ==
    /\ pc = "numbered"
    /\ capturedToken = <<"m","I","X">>
    /\ chapterNum = Some(1009)

(***************************************************************************)
(* The request handlers of the HTTP API.  A handler is one action: it      *)
(* draws the request from small sets, computes the new database and the    *)
(* status of the response.  rateLimit (rate-limit.ts 103-129) is the first *)
(* call of every handler; whether it throws depends on the clock and on    *)
(* the requests before, and is drawn here as the input limited.            *)
(***************************************************************************)
Outcome(d, status) == [db |-> d, response |-> Respond(status)]

\* the row of a new agent (register route, prisma.agent.create)
NewAgent(verified) ==
    [clawkeyVerified |-> verified, totalWordsConsumed |-> 0, totalTokensSpent |-> 0,
     booksCurrentlyReading |-> 0, booksRead |-> 0, reviewsWritten |-> 0]

\* POST /agents/register for the ClawKey device a; valid: the body passes the
\* field checks; verified: the answer of verifyClawKeyAgent
RegisterOutcome(d, a, valid, verified, limited) ==
    IF limited THEN Outcome(d, 429)
    ELSE IF ~valid THEN Outcome(d, 400)
    ELSE IF a \in DOMAIN d.agent THEN Outcome(d, 409)
    ELSE Outcome([d EXCEPT !.agent = Insert(@, a, NewAgent(verified))], 201)

\* the row of a new reading session (checkout route 89-99)
NewSession == [status |-> "reading", shelf |-> "currently-reading", currentChunk |-> 0]

\* checkout route 88-116: the session is created and the counters are raised
CreateSession(d, key, b) ==
    [d EXCEPT !.readingSession = Insert(@, <<key, b>>, NewSession),
              !.book[b].currentlyReading = @ + 1,
              !.book[b].totalCheckouts = @ + 1,
              !.agent[key].booksCurrentlyReading = @ + 1]

\* POST /library/checkout by the holder of key for book b (NoBook: no bookId
\* in the body, or the id of no book)
CheckoutOutcome(d, key, b, hasBookId, limited) ==
    IF limited THEN Outcome(d, 429)
    ELSE IF ~requireVerifiedAgent(d, key) THEN Outcome(d, 401)
    ELSE IF ~hasBookId THEN Outcome(d, 400)
    ELSE IF b \notin DOMAIN d.book THEN Outcome(d, 404)
    ELSE IF ~d.book[b].available THEN Outcome(d, 400)
    ELSE IF <<key, b>> \in DOMAIN d.readingSession THEN Outcome(d, 200)
    ELSE Outcome(CreateSession(d, key, b), 201)

\* the row of a new reflection (reflections route 615-629)
NewReview(key, b, rating) ==
    [agentId |-> key, bookId |-> b, rating |-> rating, replyCount |-> 0,
     counts |-> [t \in VALID_REACTIONS |-> 0]]

\* reflections route 615-665: the reflection is created, the book and agent
\* counters are raised; rating 0 stands for no rating in the body
CreateReview(d, key, b, rating) ==
    [d EXCEPT !.review = Insert(@, <<key, b>>, NewReview(key, b, rating)),
              !.book[b].reviewCount = @ + 1,
              !.book[b].ratingCount = IF rating # 0 THEN @ + 1 ELSE @,
              !.agent[key].reviewsWritten = @ + 1]

\* POST /library/book/{b}/reflections by the holder of key; valid: the body
\* passes the checks of inOneSentence, of the field lengths and of the rating
ReflectionOutcome(d, key, b, valid, rating, limited) ==
    IF limited THEN Outcome(d, 429)
    ELSE IF ~requireVerifiedAgent(d, key) THEN Outcome(d, 401)
    ELSE IF ~valid THEN Outcome(d, 400)
    ELSE IF b \notin DOMAIN d.book THEN Outcome(d, 404)
    ELSE IF <<key, b>> \notin DOMAIN d.readingSession THEN Outcome(d, 400)
    ELSE IF <<key, b>> \in DOMAIN d.review THEN Outcome(d, 400)
    ELSE Outcome(CreateReview(d, key, b, rating), 201)

\* replies route 309-332: the reply is created, replyCount is raised
CreateReply(d, key, r) ==
    [d EXCEPT !.reply = Append(@, [reviewId |-> r, agentId |-> key]),
              !.review[r].replyCount = @ + 1]

\* POST /reflections/{r}/replies by the holder of key; valid: the text passes
\* the length checks
ReplyOutcome(d, key, r, valid, limited) ==
    IF limited THEN Outcome(d, 429)
    ELSE IF ~requireVerifiedAgent(d, key) THEN Outcome(d, 401)
    ELSE IF ~valid THEN Outcome(d, 400)
    ELSE IF r \notin DOMAIN d.review THEN Outcome(d, 404)
    ELSE Outcome(CreateReply(d, key, r), 201)

Reaction(r, key, type) == [reviewId |-> r, agentId |-> key, type |-> type]

\* react route 72-86
AddReaction(d, key, r, type) ==
    [d EXCEPT !.reaction = @ \cup {Reaction(r, key, type)},
              !.review[r].counts[type] = @ + 1]

\* react route 105-114
RemoveReaction(d, key, r, type) ==
    [d EXCEPT !.reaction = @ \ {Reaction(r, key, type)},
              !.review[r].counts[type] = @ - 1]

\* POST /reflections/{r}/react by the holder of key
ReactOutcome(d, key, r, type, action, limited) ==
    IF limited THEN Outcome(d, 429)
    ELSE IF ~requireVerifiedAgent(d, key) THEN Outcome(d, 401)
    ELSE IF type \notin VALID_REACTIONS THEN Outcome(d, 400)
    ELSE IF r \notin DOMAIN d.review THEN Outcome(d, 404)
    ELSE IF action = "add"
    THEN IF Reaction(r, key, type) \in d.reaction THEN Outcome(d, 200)
         ELSE Outcome(AddReaction(d, key, r, type), 201)
    ELSE IF Reaction(r, key, type) \notin d.reaction THEN Outcome(d, 200)
         ELSE Outcome(RemoveReaction(d, key, r, type), 200)

\* the bookChunk row of chunk n of book b: every chunk of the model has three
\* words and four tokens
ChunkRow(b, n) == [chunkNumber |-> n, wordCount |-> 3, tokenCount |-> 4]

\* chunk route 93-115: the session moves to chunk n, the agent's counters grow
ReadChunk(d, key, b, n) ==
    [d EXCEPT !.readingSession[<<key, b>>].currentChunk = n,
              !.agent[key].totalWordsConsumed = @ + ChunkRow(b, n).wordCount,
              !.agent[key].totalTokensSpent = @ + ChunkRow(b, n).tokenCount]

\* ChunkOutcome as it would be if the counters were updated before the
\* session is looked up
ChunkOutcomeCountingFirst(d, key, b, n, limited) ==
    IF limited THEN Outcome(d, 429)
    ELSE IF ~authenticateAgent(d, key) THEN Outcome(d, 401)
    ELSE IF n < 1 THEN Outcome(d, 400)
    ELSE IF b \notin DOMAIN d.book THEN Outcome(d, 404)
    ELSE IF n > d.book[b].chunkCount THEN Outcome(d, 404)
    ELSE IF <<key, b>> \notin DOMAIN d.readingSession
    THEN Outcome([d EXCEPT
                    !.agent[key].totalWordsConsumed = @ + ChunkRow(b, n).wordCount,
                    !.agent[key].totalTokensSpent = @ + ChunkRow(b, n).tokenCount], 403)
    ELSE Outcome(ReadChunk(d, key, b, n), 200)

\* GET /library/book/{b}/chunk/{n} by the holder of key; n = 0 stands for a
\* chunk number that is not a positive integer.  The bookChunk rows 1 to
\* chunkCount of a book exist.
ChunkOutcome(d, key, b, n, limited) ==
    IF limited THEN Outcome(d, 429)
    ELSE IF ~authenticateAgent(d, key) THEN Outcome(d, 401)
    ELSE IF n < 1 THEN Outcome(d, 400)
    ELSE IF b \notin DOMAIN d.book THEN Outcome(d, 404)
    ELSE IF n > d.book[b].chunkCount THEN Outcome(d, 404)
    ELSE IF <<key, b>> \notin DOMAIN d.readingSession THEN Outcome(d, 403)
    ELSE Outcome(ReadChunk(d, key, b, n), 200)

\* progress route 81-89: the status after the update; "none" stands for no
\* status in the body
NewStatus(session, chunkCount, currentChunk, status) ==
    IF currentChunk >= chunkCount
          /\ (IF status # "none" THEN status ELSE session.status) = "reading"
    THEN "finished"
    ELSE IF status # "none" THEN status ELSE session.status

\* progress route 83-94: the shelf after the update
NewShelf(session, chunkCount, currentChunk, status) ==
    IF status = "abandoned" THEN "dnf"
    ELSE IF currentChunk >= chunkCount
          /\ (IF status # "none" THEN status ELSE session.status) = "reading"
    THEN "read"
    ELSE session.shelf

\* progress route 123-161: the counters of the book and of the agent
FinishDelta(old, new) == IF new = "finished" /\ old # "finished" THEN 1 ELSE 0

AbandonDelta(old, new) == IF new = "abandoned" /\ old = "reading" THEN 1 ELSE 0

\* progress route 109-161: the session is updated, then the counters
UpdateProgress(d, key, b, currentChunk, newStatus, newShelf) ==
    [d EXCEPT
        !.readingSession[<<key, b>>] =
            [status |-> newStatus, shelf |-> newShelf, currentChunk |-> currentChunk],
        !.book[b].currentlyReading =
            @ - FinishDelta(d.readingSession[<<key, b>>].status, newStatus)
              - AbandonDelta(d.readingSession[<<key, b>>].status, newStatus),
        !.book[b].totalReads =
            @ + FinishDelta(d.readingSession[<<key, b>>].status, newStatus),
        !.agent[key].booksCurrentlyReading =
            @ - FinishDelta(d.readingSession[<<key, b>>].status, newStatus)
              - AbandonDelta(d.readingSession[<<key, b>>].status, newStatus),
        !.agent[key].booksRead =
            @ + FinishDelta(d.readingSession[<<key, b>>].status, newStatus)]

\* POST /library/progress by the holder of key; hasFields: bookId and
\* currentChunk are in the body; noteValid: no note of more than 2000 characters
ProgressOutcome(d, key, b, hasFields, currentChunk, status, noteValid, limited) ==
    IF limited THEN Outcome(d, 429)
    ELSE IF ~requireVerifiedAgent(d, key) THEN Outcome(d, 401)
    ELSE IF ~hasFields THEN Outcome(d, 400)
    ELSE IF ~noteValid THEN Outcome(d, 400)
    ELSE IF <<key, b>> \notin DOMAIN d.readingSession THEN Outcome(d, 404)
    ELSE IF currentChunk < 0 \/ currentChunk > d.book[b].chunkCount THEN Outcome(d, 400)
    ELSE Outcome(UpdateProgress(d, key, b, currentChunk,
                    NewStatus(d.readingSession[<<key, b>>], d.book[b].chunkCount,
                              currentChunk, status),
                    NewShelf(d.readingSession[<<key, b>>], d.book[b].chunkCount,
                             currentChunk, status)), 200)

(***************************************************************************)
(* The API as a state machine.  Every request is handled in one step.      *)
(***************************************************************************)
MaxReplies == 1

Keys == AgentIds \cup {NoAgent}

BookInputs == BookIds \cup {NoBook}

\* ids of reflections, existing or not
ReflectionIds == AgentIds \X BookIds

ReactionInputs == {"insightful", "applause"}

ApiInit == ApiIdle /\ ChunkerIdle /\ RateIdle /\ CallsIdle

RegisterAgent ==
    \E a \in AgentIds, valid, verified, limited \in BOOLEAN :
        LET out == RegisterOutcome(db, a, valid, verified, limited)
        IN  /\ request' = [route |-> "register", agent |-> NoAgent]
            /\ db' = out.db
            /\ response' = out.response
            /\ UNCHANGED <<chunkerVars, rateVars, callVars>>

Checkout ==
    \E key \in Keys, b \in BookInputs, limited \in BOOLEAN :
        LET out == CheckoutOutcome(db, key, b, b # NoBook, limited)
        IN  /\ request' = [route |-> "checkout", agent |-> key]
            /\ db' = out.db
            /\ response' = out.response
            /\ UNCHANGED <<chunkerVars, rateVars, callVars>>

PostReflection ==
    \E key \in Keys, b \in BookInputs, valid, limited \in BOOLEAN, rating \in {0, 3} :
        LET out == ReflectionOutcome(db, key, b, valid, rating, limited)
        IN  /\ request' = [route |-> "reflections", agent |-> key]
            /\ db' = out.db
            /\ response' = out.response
            /\ UNCHANGED <<chunkerVars, rateVars, callVars>>

PostReply ==
    \E key \in Keys, r \in ReflectionIds, valid, limited \in BOOLEAN :
        /\ Len(db.reply) < MaxReplies
        /\ LET out == ReplyOutcome(db, key, r, valid, limited)
           IN  /\ request' = [route |-> "replies", agent |-> key]
               /\ db' = out.db
               /\ response' = out.response
               /\ UNCHANGED <<chunkerVars, rateVars, callVars>>

PostReaction ==
    \E key \in Keys, r \in ReflectionIds, type \in ReactionInputs,
       action \in {"add", "remove"}, limited \in BOOLEAN :
        LET out == ReactOutcome(db, key, r, type, action, limited)
        IN  /\ request' = [route |-> "react", agent |-> key]
            /\ db' = out.db
            /\ response' = out.response
            /\ UNCHANGED <<chunkerVars, rateVars, callVars>>

PostNext == RegisterAgent \/ Checkout \/ PostReflection \/ PostReply \/ PostReaction

PostSpec == ApiInit /\ [][PostNext]_vars

(***************************************************************************)
(* Reading: checkout, chunk reads and progress updates by the agents that  *)
(* are registered when the run starts.  The counters of the database are   *)
(* kept within MaxCount by the guards.                                     *)
(***************************************************************************)
MaxCount == 2

\* the agents registered before the run
Readers == {"a1"}

LibInit ==
    /\ db = [InitialDb EXCEPT !.agent = [a \in Readers |-> NewAgent(FALSE)]]
    /\ request = NoRequest
    /\ response = NoResponse
    /\ ChunkerIdle
    /\ RateIdle
    /\ CallsIdle

ChunkNumbers == 0..3

StatusInputs == {"none", "reading", "finished", "abandoned"}

\* the counters of d are within the bounds of the model
WithinBounds(d) ==
    /\ \A a \in DOMAIN d.agent :
          /\ d.agent[a].booksRead <= MaxCount
          /\ d.agent[a].booksCurrentlyReading >= 0 - MaxCount
          /\ d.agent[a].totalWordsConsumed <= MaxCount * ChunkRow("b1", 1).wordCount
    /\ \A b \in DOMAIN d.book :
          /\ d.book[b].totalReads <= MaxCount
          /\ d.book[b].currentlyReading >= 0 - MaxCount

GetChunk ==
    \E key \in Keys, b \in BookInputs, n \in ChunkNumbers, limited \in BOOLEAN :
        LET out == ChunkOutcome(db, key, b, n, limited)
        IN  /\ WithinBounds(out.db)
            /\ request' = [route |-> "chunk", agent |-> key, book |-> b,
                            n |-> n, limited |-> limited]
            /\ db' = out.db
            /\ response' = out.response
            /\ UNCHANGED <<chunkerVars, rateVars, callVars>>

PostProgress ==
    \E key \in Keys, b \in BookInputs, currentChunk \in ChunkNumbers \cup {-1},
       status \in StatusInputs, noteValid, limited \in BOOLEAN :
        LET out == ProgressOutcome(db, key, b, b # NoBook, currentChunk, status,
                                   noteValid, limited)
        IN  /\ WithinBounds(out.db)
            /\ request' = [route |-> "progress", agent |-> key, book |-> b]
            /\ db' = out.db
            /\ response' = out.response
            /\ UNCHANGED <<chunkerVars, rateVars, callVars>>

LibNext == Checkout \/ GetChunk \/ PostProgress

LibSpec == LibInit /\ [][LibNext]_vars

(***************************************************************************)
(* The rate limiter (rate-limit.ts, src/unnamed/part_000).  rateLimitStore *)
(* is the Map from keys to entries, now the value of Date.now(), and       *)
(* allowedLog records, per key, the times of the calls of checkRateLimit   *)
(* that returned allowed: true.  Time is counted in units of which a       *)
(* window of ScaledLimit holds three.                                      *)
(***************************************************************************)
MaxTime == 6

RateKeys == {"k1", "k2"}

\* a RateLimitConfig in the proportions of RATE_LIMITS, scaled down
ScaledLimit == [windowMs |-> 3, max |-> 2]

\* checkRateLimit (rate-limit.ts 54-97): the store after the call and the
\* result's allowed
checkRateLimit(store, key, config, t) ==
    IF key \notin DOMAIN store \/ t > store[key].resetAt
    THEN [store |-> Insert(store, key, [count |-> 1, resetAt |-> t + config.windowMs]),
          allowed |-> TRUE]
    ELSE IF store[key].count >= config.max
    THEN [store |-> store, allowed |-> FALSE]
    ELSE [store |-> [store EXCEPT ![key].count = @ + 1], allowed |-> TRUE]

\* cleanupRateLimitStore (rate-limit.ts 147-154)
cleanupRateLimitStore(store, t) ==
    [k \in {x \in DOMAIN store : ~(t > store[x].resetAt)} |-> store[k]]

RateInit ==
    /\ rateLimitStore = EmptyTable
    /\ now = 0
    /\ allowedLog = [k \in RateKeys |-> <<>>]
    /\ ApiIdle
    /\ ChunkerIdle
    /\ CallsIdle

\* time passes
Tick ==
    /\ now < MaxTime
    /\ now' = now + 1
    /\ UNCHANGED <<rateLimitStore, allowedLog, chunkerVars, apiVars, callVars>>

\* a request with rate-limit key k arrives
CallCheckRateLimit ==
    \E k \in RateKeys :
        LET result == checkRateLimit(rateLimitStore, k, ScaledLimit, now)
        IN  /\ rateLimitStore' = result.store
            /\ allowedLog' = IF result.allowed
                             THEN [allowedLog EXCEPT ![k] = Append(@, now)]
                             ELSE allowedLog
            /\ UNCHANGED <<now, chunkerVars, apiVars, callVars>>

\* the periodic cleanup runs
CallCleanup ==
    /\ rateLimitStore' = cleanupRateLimitStore(rateLimitStore, now)
    /\ UNCHANGED <<now, allowedLog, chunkerVars, apiVars, callVars>>

RateNext == Tick \/ CallCheckRateLimit \/ CallCleanup

RateSpec == RateInit /\ [][RateNext]_vars

\* the number of calls for key k allowed at a time in [t, t + length)
AllowedWithin(k, t, length) ==
    Cardinality({i \in 1..Len(allowedLog[k]) :
                    allowedLog[k][i] >= t /\ allowedLog[k][i] < t + length})

\* C16: for every key, the number of requests allowed within any time
\* interval of length windowMs is at most max.
C16_SlidingWindow ==
    \A k \in DOMAIN allowedLog, t \in 0..MaxTime :
        AllowedWithin(k, t, ScaledLimit.windowMs) <= ScaledLimit.max

(***************************************************************************)
(* Properties of the API.                                                  *)
(***************************************************************************)
Verified(a) == a \in DOMAIN db.agent /\ db.agent[a].clawkeyVerified

PostRoutes == {"reflections", "replies", "react"}

\* C15: an agent that is not ClawKey-verified creates no reflection, reply
\* or reaction: each of these POSTs by such an agent is rejected, and every
\* reflection, reply and reaction in the database is by a verified agent.
C15_VerifiedPostsOnly ==
    /\ (request.route \in PostRoutes /\ request.agent \in DOMAIN db.agent
            /\ ~Verified(request.agent)) => response.status >= 400
    /\ \A r \in DOMAIN db.review : Verified(db.review[r].agentId)
    /\ \A k \in 1..Len(db.reply) : Verified(db.reply[k].agentId)
    /\ \A x \in db.reaction : Verified(x.agentId)

\* the step handles a chunk GET of a registered agent that has no reading
\* session for the book
ChunkGetWithoutSession ==
    /\ request'.route = "chunk"
    /\ request'.agent \in DOMAIN db.agent
    /\ <<request'.agent, request'.book>> \notin DOMAIN db.readingSession

\* the chunk GET of the step passes the rate limit and names a chunk of a book
NamesChunk ==
    /\ ~request'.limited
    /\ request'.book \in DOMAIN db.book
    /\ request'.n \in 1..db.book[request'.book].chunkCount

\* C17: a chunk GET by an authenticated agent without a reading session for
\* the book returns no chunk, is answered 403 when it names a chunk, and
\* changes no reading session and neither totalWordsConsumed nor
\* totalTokensSpent of the agent.
C17_SessionRequired ==
    [][ChunkGetWithoutSession =>
          /\ response'.status >= 400
          /\ NamesChunk => response'.status = 403
          /\ db'.readingSession = db.readingSession
          /\ db'.agent[request'.agent].totalWordsConsumed
                = db.agent[request'.agent].totalWordsConsumed
          /\ db'.agent[request'.agent].totalTokensSpent
                = db.agent[request'.agent].totalTokensSpent]_vars

\* C17 witness: a chunk GET of an existing chunk was refused with 403 to an
\* agent without a session for the book, while another request had read a chunk
C17_Witness ==
    /\ request.route = "chunk"
    /\ request.agent \in DOMAIN db.agent
    /\ <<request.agent, request.book>> \notin DOMAIN db.readingSession
    /\ response.status = 403
    /\ db.agent[request.agent].totalWordsConsumed > 0

\* C18: a reading session whose status is finished has the shelf read.
C18_FinishedOnReadShelf ==
    \A k \in DOMAIN db.readingSession :
        db.readingSession[k].status = "finished" => db.readingSession[k].shelf = "read"


(***************************************************************************)
(* Interleaved invocations of chunkBook.  An invocation is given its text  *)
(* and options, runs the exec loop of detectChapters one pattern.exec at a *)
(* time (chunker.ts 68-95), and then builds its chapters and chunks; the   *)
(* steps of different invocations interleave in any order.  The only       *)
(* mutable state that outlives a step of the pipeline is the lastIndex of  *)
(* the five regular expressions.                                           *)
(***************************************************************************)
MaxInvocations == 3

Invocations == 1..MaxInvocations

PatternCount == 5

ConcTextA ==
    <<"C","H","A","P","T","E","R"," ","I","\n","\n","a","b","\n","\n",
      "P","A","R","T"," ","I","I","\n","\n","c","d">>

ConcTextB ==
    <<"P","A","R","T"," ","I","\n","\n","x"," ","y","\n","\n",
      "C","H","A","P","T","E","R"," ","I","I">>

ConcTexts == {ConcTextA, ConcTextB}

ConcOptions == {TinyPolicy}

\* an invocation that has not been made
NotInvoked ==
    [state |-> "idle", text |-> <<>>, options |-> <<>>, pattern |-> 0,
     chapterMatches |-> <<>>, result |-> <<>>, overlapped |-> FALSE]

\* lastIndex of freshly created regular expressions
FreshPatterns == [k \in 1..PatternCount |-> 0]

\* the regular expressions an invocation uses, were the patterns created once
\* for all invocations
RegexOwnerShared(i) == 1

\* the regular expressions an invocation uses: the literals of chapterPatterns
\* are evaluated inside detectChapters (chunker.ts 52-64), so every call has
\* its own five objects
RegexOwner(i) == i

\* pattern.exec(text) (chunker.ts 70) on the expression with the given
\* lastIndex: the match and the new lastIndex, 0 after a failed search
ExecOnce(k, t, hits) ==
    IF hits = {} THEN [match |-> NoMatch, lastIndex |-> 0]
    ELSE [match |-> PatternAt(k, t, Least(hits)),
          lastIndex |-> LastIndexAfter(PatternAt(k, t, Least(hits)))]

exec(k, t, lastIndex) == ExecOnce(k, t, MatchPositions(k, t, lastIndex))

\* the invocation after one exec: a match is pushed on chapterMatches
\* (chunker.ts 93), null ends the while loop and the for loop goes on to the
\* next pattern, or leaves the loops after the last one
AfterExec(inv, e, busy) ==
    IF e.match.found
    THEN [inv EXCEPT !.chapterMatches = Append(@, ChapterMatch(inv.text, e.match)),
                     !.overlapped = @ \/ busy]
    ELSE [inv EXCEPT !.pattern = IF @ = PatternCount THEN @ ELSE @ + 1,
                     !.state = IF inv.pattern = PatternCount THEN "detected" ELSE @,
                     !.overlapped = @ \/ busy]

\* detectChapters after its loops (chunker.ts 97-134) and the rest of
\* chunkBook (chunker.ts 307-345)
ChunksAfterDetection(inv) ==
    ChunksOfChapters(ChaptersOf(inv.text, Deduplicate(SortMatches(inv.chapterMatches))),
                     MergeOptions(inv.options))

\* another invocation is in the middle of its exec loop
OtherScanning(i) ==
    \E j \in Invocations \ {i} :
        /\ invocations[j].state = "scanning"
        /\ invocations[j].pattern > 1 \/ invocations[j].chapterMatches # <<>>

ConcInit ==
    /\ invocations = [i \in Invocations |-> NotInvoked]
    /\ regexLastIndex = [i \in Invocations |-> FreshPatterns]
    /\ stats = <<>>
    /\ RaceIdle
    /\ ChunkerIdle
    /\ ApiIdle
    /\ RateIdle

\* chunkBook(text, options) is called: detectChapters creates its patterns
Invoke(i) ==
    /\ invocations[i].state = "idle"
    /\ \E t \in ConcTexts, o \in ConcOptions :
          invocations' = [invocations EXCEPT ![i] =
              [NotInvoked EXCEPT !.state = "scanning", !.text = t,
                                 !.options = o, !.pattern = 1]]
    /\ regexLastIndex' = [regexLastIndex EXCEPT ![RegexOwner(i)] = FreshPatterns]
    /\ UNCHANGED <<stats, raceVars, chunkerVars, apiVars, rateVars>>

\* one pattern.exec(text) of the invocation
ExecStep(i) ==
    /\ invocations[i].state = "scanning"
    /\ LET inv == invocations[i]
           e == exec(inv.pattern, inv.text, regexLastIndex[RegexOwner(i)][inv.pattern])
       IN /\ invocations' = [invocations EXCEPT ![i] = AfterExec(inv, e, OtherScanning(i))]
          /\ regexLastIndex' =
                 [regexLastIndex EXCEPT ![RegexOwner(i)][inv.pattern] = e.lastIndex]
    /\ UNCHANGED <<stats, raceVars, chunkerVars, apiVars, rateVars>>

\* the invocation sorts, deduplicates, builds its chapters and chunks them
Return(i) ==
    /\ invocations[i].state = "detected"
    /\ invocations' = [invocations EXCEPT ![i] =
           [invocations[i] EXCEPT !.state = "returned",
                                  !.result = ChunksAfterDetection(invocations[i])]]
    /\ UNCHANGED <<stats, regexLastIndex, raceVars, chunkerVars, apiVars, rateVars>>

ConcNext == \E i \in Invocations : Invoke(i) \/ ExecStep(i) \/ Return(i)

ConcSpec == ConcInit /\ [][ConcNext]_vars

Returned(i) == invocations[i].state = "returned"

SameInputs(i, j) ==
    /\ invocations[i].text = invocations[j].text
    /\ invocations[i].options = invocations[j].options

\* C19: chunkBook is pure and safe to run concurrently: however the steps of
\* the invocations interleave, two invocations on the same text and options
\* return identical chunk lists, and every invocation returns what a call
\* running alone returns for its text and options.
C19_ConcurrentInvocations ==
    /\ \A i, j \in Invocations :
          Returned(i) /\ Returned(j) /\ SameInputs(i, j)
              => invocations[i].result = invocations[j].result
    /\ \A i \in Invocations :
          Returned(i) =>
              invocations[i].result = chunkBook(invocations[i].text, invocations[i].options)

\* two invocations on the same text and options and one on another text have
\* returned, each having run an exec while another was mid-loop
C19_Witness ==
    \E i, j, k \in Invocations :
        /\ i # j
        /\ Returned(i) /\ Returned(j) /\ Returned(k)
        /\ SameInputs(i, j)
        /\ invocations[k].text # invocations[i].text
        /\ invocations[i].overlapped /\ invocations[j].overlapped
        /\ invocations[k].overlapped
        /\ Len(invocations[i].result) > 1


(***************************************************************************)
(* getBookStats (chunker.ts 351-368), called on texts of n words: a word   *)
(* and a separator repeated n times after an optional leading separator,   *)
(* n at and next to the multiples of 250 up to MaxThousands thousand.      *)
(***************************************************************************)
WordsPerPage == 250

WordsPerMinute == 1000

\* getBookStats rounding the two quotients down
getBookStatsRoundingDown(t) ==
    [wordCount |-> countWords(t),
     pageCount |-> countWords(t) \div WordsPerPage,
     estimatedReadTimeMinutes |-> countWords(t) \div WordsPerMinute]

\* the returned object for a word count (chunker.ts 357-367); Math.ceil of the
\* quotient of two integers
StatsOfCount(wordCount) ==
    [wordCount |-> wordCount,
     pageCount |-> CeilDiv(wordCount, WordsPerPage),
     estimatedReadTimeMinutes |-> CeilDiv(wordCount, WordsPerMinute)]

getBookStats(t) == StatsOfCount(countWords(t))

MaxThousands == 1

WordCounts ==
    {m * WordsPerPage + d : m \in 0..(4 * MaxThousands), d \in {-1, 0, 1}} \cap Nat

\* a word followed by a separator
WordUnits == { <<"w", " ">>, <<"w", "o", "\n">>, <<"w", " ", "\t">> }

LeadingSpace == { <<>>, <<" ">> }

\* unit repeated n times
RepeatUnit(unit, n) ==
    [k \in 1..(n * Len(unit)) |-> unit[((k - 1) % Len(unit)) + 1]]

StatsTexts ==
    {lead \o RepeatUnit(unit, n) : lead \in LeadingSpace, unit \in WordUnits,
                                    n \in WordCounts}

StatsInit ==
    /\ text \in StatsTexts
    /\ stats = <<>>
    /\ pc = "ready"
    /\ options = <<>>
    /\ chapters = <<>>
    /\ chunks = <<>>
    /\ capturedToken = <<>>
    /\ chapterNum = Null
    /\ invocations = <<>>
    /\ regexLastIndex = <<>>
    /\ RaceIdle
    /\ ApiIdle
    /\ RateIdle

CallGetBookStats ==
    /\ pc = "ready"
    /\ stats' = getBookStats(text)
    /\ pc' = "counted"
    /\ UNCHANGED <<text, options, chapters, chunks, capturedToken, chapterNum,
                   invocations, regexLastIndex, raceVars, apiVars, rateVars>>

StatsNext == CallGetBookStats

StatsSpec == StatsInit /\ [][StatsNext]_vars

\* the number of maximal runs of characters that are not white space
TokenCount(t) ==
    Cardinality({k \in 1..Len(t) :
                    /\ t[k] \notin WhiteSpace
                    /\ k = 1 \/ t[k - 1] \in WhiteSpace})

\* q is the least integer that is at least n / d
IsCeilingOf(q, n, d) == d * (q - 1) < n /\ n <= d * q

\* C20: getBookStats returns wordCount equal to the number of non-empty
\* whitespace-delimited tokens of the text, pageCount = ceil(wordCount / 250)
\* and estimatedReadTimeMinutes = ceil(wordCount / 1000).
C20_BookStats ==
    pc = "counted" =>
        /\ stats.wordCount = TokenCount(text)
        /\ IsCeilingOf(stats.pageCount, stats.wordCount, 250)
        /\ IsCeilingOf(stats.estimatedReadTimeMinutes, stats.wordCount, 1000)

\* the statistics of a text of 1001 words: 5 pages and 2 minutes
C20_Witness ==
    /\ pc = "counted"
    /\ TokenCount(text) = 1001
    /\ stats = [wordCount |-> 1001, pageCount |-> 5, estimatedReadTimeMinutes |-> 2]


(***************************************************************************)
(* Further properties of detectChapters and chunkBook.                     *)
(***************************************************************************)
\* the positions kept by a scan of the sorted positions that drops a position
\* when it is within DedupDistance of the last position kept before it
RECURSIVE KeptAfterLastKept(_, _, _)
KeptAfterLastKept(positions, i, kept) ==
    IF i > Len(positions) THEN kept
    ELSE IF kept = <<>> \/ positions[i] - kept[Len(kept)] > 100
         THEN KeptAfterLastKept(positions, i + 1, Append(kept, positions[i]))
         ELSE KeptAfterLastKept(positions, i + 1, kept)

SortedPositions(t) ==
    [i \in 1..Len(AllMatches(t)) |-> SortMatches(AllMatches(t))[i].position]

StartPositions == [i \in 1..Len(chapters) |-> chapters[i].startPosition]

\* C21: deduplication in detectChapters is relative to the last kept match:
\* the chapters of a text with headings start at the positions kept by a scan
\* in ascending order that drops a match if and only if it lies within 100
\* characters of the match kept last.
C21_DedupLastKept ==
    pc = "detected" /\ AllMatches(text) # <<>> =>
        StartPositions = KeptAfterLastKept(SortedPositions(text), 1, <<>>)


\* the chapters that chunkChapter splits
SplitChapters == {c \in 1..Len(chapters) : ~FitsInOneChunk(chapters[c], MergeOptions(options))}

\* the state of chunkChapter when it reaches paragraph n of chapter c
StateAtParagraph(c, n) ==
    ParagraphLoop(StartState(chapters[c], 0), splitAtParagraphs(chapters[c].text),
                  n - 1, MergeOptions(options))

\* the paragraphs of chapter c that are longer than maxChars
LongParagraphs(c) ==
    {n \in 1..Len(splitAtParagraphs(chapters[c].text)) :
        Len(splitAtParagraphs(chapters[c].text)[n]) > MaxChars(MergeOptions(options))}

\* the buffer, the chunks and the offsets of a state of chunkChapter
Progress(st) == <<st.chunks, st.currentChunk, st.chunkStartOffset, st.currentOffset>>

\* the state after a paragraph whose sentences were accumulated one by one,
\* a buffer of at least minChars having been flushed first
AfterSentencesOf(st, paragraph, opts) ==
    [AllSentences(FlushBeforeSentences(st, opts), splitAtSentences(paragraph), opts)
        EXCEPT !.currentOffset = @ + Len(paragraph) + 2]

\* C22: every paragraph longer than maxChars is split at sentence boundaries,
\* whatever the buffer holds when it is reached: a buffer of at least minChars
\* is flushed, and the sentences of the paragraph are accumulated one by one.
C22_LongParagraphSplit ==
    pc = "chunked" =>
        \A c \in SplitChapters : \A n \in LongParagraphs(c) :
            Progress(ParagraphStep(StateAtParagraph(c, n),
                                   splitAtParagraphs(chapters[c].text)[n],
                                   MergeOptions(options)))
                = Progress(AfterSentencesOf(StateAtParagraph(c, n),
                                            splitAtParagraphs(chapters[c].text)[n],
                                            MergeOptions(options)))


\* the patterns that exec finds matching at position p
PatternsMatchedAt(t, p) ==
    {k \in 1..5 : \E j \in 1..Len(ExecAll(k, t, 0)) : ExecAll(k, t, 0)[j].index = p}

\* the number token of the heading that pattern k matches at position p: the
\* token after the keyword, the roman numeral before the period, none for an
\* all-capitals line
NumberToken(k, t, p) ==
    CASE k \in 1..3 -> PatternAt(k, t, p).g2
      [] k = 4 -> Slice(t, p, RunEnd(t, p, RomanChars))
      [] k = 5 -> <<>>

\* the number a token stands for: the integer it reads as, else its value as
\* a roman numeral
NumberOfToken(token) ==
    IF token = <<>> THEN Null ELSE IntegerOrRoman(parseInt(token), token)

\* C23: for every heading pattern, the bare roman numeral pattern included,
\* the number of a chapter is derived from the number token of its heading
\* (the first pattern that matches at the start of the chapter), never from
\* the title remainder.
C23_NumberFromToken ==
    pc = "detected" =>
        \A i \in 1..Len(chapters) :
            chapters[i].hasTitle =>
                chapters[i].number =
                    NumberOfToken(NumberToken(
                        Least(PatternsMatchedAt(text, chapters[i].startPosition)),
                        text, chapters[i].startPosition))


\* the chapters that fit in one chunk
FittingChapters == {c \in 1..Len(chapters) : FitsInOneChunk(chapters[c], MergeOptions(options))}

\* C24: a chapter whose text is at most maxTokens * charsPerToken characters
\* long yields exactly one chunk, whose text is the chapter text unchanged and
\* whose span is the span of the chapter.
C24_FittingChapterUnchanged ==
    pc = "chunked" =>
        \A c \in FittingChapters :
            /\ Cardinality(ChunksOf(c)) = 1
            /\ \A j \in ChunksOf(c) :
                  /\ chunks[j].text = chapters[c].text
                  /\ chunks[j].startPosition = chapters[c].startPosition
                  /\ chunks[j].endPosition = chapters[c].endPosition

\* a text of several chapters was chunked, and one that fits in one chunk
\* and ends with white space came out as it is
C24_Witness ==
    /\ pc = "chunked"
    /\ Len(chapters) >= 2
    /\ \E c \in FittingChapters : \E j \in ChunksOf(c) :
          /\ chapters[c].text # Trim(chapters[c].text)
          /\ chunks[j].text = chapters[c].text
          /\ chapters[c].startPosition > 0


\* the chunks of chapter c as chunkChapter pushed them
PushedChunks(c) == chunkChapter(chapters[c], MergeOptions(options), 0)

MinWithinTarget == MergeOptions(options).minTokens <= MergeOptions(options).targetTokens

\* C25 as stated: with minTokens <= targetTokens, in a chapter that is split
\* into several chunks only the last chunk of the chapter may be smaller than
\* minChars.
C25_OnlyLastBelowMin ==
    pc = "chunked" /\ MinWithinTarget =>
        \A c \in SplitChapters :
            \A j \in 1..(Len(PushedChunks(c)) - 1) :
                Len(PushedChunks(c)[j].text) >= MinChars(MergeOptions(options))

\* C25 amended: with minTokens <= targetTokens, in a chapter that is split into
\* several chunks every chunk except the last of the chapter is flushed from
\* a buffer that holds at least minChars characters (its trimmed text may be
\* shorter).
C25_FlushedAtMin ==
    pc = "chunked" /\ MinWithinTarget =>
        \A c \in SplitChapters :
            \A j \in 1..(Len(PushedChunks(c)) - 1) :
                PushedChunks(c)[j].bufferLength >= MinChars(MergeOptions(options))

\* a chunk that is not the last of its chapter was flushed from a buffer of
\* minChars characters and is shorter than minChars after the trim
C25_Witness ==
    /\ pc = "chunked"
    /\ MinWithinTarget
    /\ \E c \in SplitChapters : \E j \in 1..(Len(PushedChunks(c)) - 1) :
          /\ PushedChunks(c)[j].bufferLength >= MinChars(MergeOptions(options))
          /\ Len(PushedChunks(c)[j].text) < MinChars(MergeOptions(options))
          /\ Len(PushedChunks(c)[j].text) > 0


\* C26: for every chunk returned by chunkBook, tokenCount is the ceiling of
\* the length of the chunk's text divided by the charsPerToken of the policy,
\* and wordCount is the number of non-empty whitespace-delimited tokens of
\* that text.
C26_ChunkCounts ==
    pc = "chunked" =>
        \A j \in 1..Len(chunks) :
            /\ IsCeilingOf(chunks[j].tokenCount, Len(chunks[j].text),
                           MergeOptions(options).charsPerToken)
            /\ chunks[j].wordCount = TokenCount(chunks[j].text)

\* chunks were counted with 4 characters per token and with 1: a text whose
\* length is no multiple of 4 among them, and a text of several words
C26_Witness ==
    /\ pc = "chunked"
    /\ \E j \in 1..Len(chunks) :
          /\ Len(chunks[j].text) % 4 # 0
          /\ chunks[j].tokenCount >= 2
          /\ chunks[j].wordCount >= 2
          /\ MergeOptions(options).charsPerToken = 4


\* C30: every chunk returned by chunkBook has a well-formed span inside its
\* chapter: chapter.startPosition <= chunk.startPosition <= chunk.endPosition
\* <= chapter.endPosition, also in chapters in which the sentence-level
\* fallback ran.
C30_SpanInsideChapter ==
    pc = "chunked" =>
        \A j \in 1..Len(chunks) :
            /\ chapters[chunks[j].chapterIndex].startPosition <= chunks[j].startPosition
            /\ chunks[j].startPosition <= chunks[j].endPosition
            /\ chunks[j].endPosition <= chapters[chunks[j].chapterIndex].endPosition

(***************************************************************************)
(* Properties of the reading counters.                                     *)
(***************************************************************************)
\* the reading sessions of book b, and of agent a, that have the status
SessionsOfBook(b, status) ==
    {k \in DOMAIN db.readingSession : k[2] = b /\ db.readingSession[k].status = status}

SessionsOfAgent(a, status) ==
    {k \in DOMAIN db.readingSession : k[1] = a /\ db.readingSession[k].status = status}

\* C28: after any sequence of checkout and progress requests, a book's
\* currentlyReading equals the number of its sessions with status 'reading'
\* and is never negative, and so does an agent's booksCurrentlyReading over
\* the sessions of the agent.
C28_CurrentlyReadingCount ==
    /\ \A b \in DOMAIN db.book :
          /\ db.book[b].currentlyReading = Cardinality(SessionsOfBook(b, "reading"))
          /\ db.book[b].currentlyReading >= 0
    /\ \A a \in DOMAIN db.agent :
          /\ db.agent[a].booksCurrentlyReading = Cardinality(SessionsOfAgent(a, "reading"))
          /\ db.agent[a].booksCurrentlyReading >= 0

\* C29: after any sequence of checkout and progress requests, an agent's
\* booksRead equals the number of its sessions with status 'finished' and a
\* book's totalReads the number of its finished sessions: a session is counted
\* as read at most once.
C29_ReadCount ==
    /\ \A b \in DOMAIN db.book :
          db.book[b].totalReads = Cardinality(SessionsOfBook(b, "finished"))
    /\ \A a \in DOMAIN db.agent :
          db.agent[a].booksRead = Cardinality(SessionsOfAgent(a, "finished"))


(***************************************************************************)
(* Interleaved checkout requests.  The handler awaits each database call   *)
(* (checkout route 54, 89, 102, 111), so the calls of requests in progress *)
(* interleave in any order.  pending[r] is the position of request r,      *)
(* createLog the keys of the rows that prisma.readingSession.create        *)
(* inserted, in order.  Every agent is registered when the run starts.     *)
(***************************************************************************)
MaxRequests == 3

Requests == 1..MaxRequests

\* a request that was not sent yet
NotSent == [pc |-> "idle", agent |-> NoAgent, book |-> NoBook, status |-> 0]

\* prisma.readingSession.create as it would be without the unique index
CreateRowUnchecked(d, key, b) ==
    [created |-> TRUE,
     db |-> [d EXCEPT !.readingSession = Insert(@, <<key, b>>, NewSession)]]

\* prisma.readingSession.create (checkout route 89-99) on a table with
\* @@unique([agentId, bookId]) (BUILDPLAN.md 401): a second row for the key is
\* rejected and create throws
CreateRow(d, key, b) ==
    IF <<key, b>> \in DOMAIN d.readingSession
    THEN [created |-> FALSE, db |-> d]
    ELSE [created |-> TRUE,
          db |-> [d EXCEPT !.readingSession = Insert(@, <<key, b>>, NewSession)]]

RaceInit ==
    /\ db = [InitialDb EXCEPT !.agent = [a \in AgentIds |-> NewAgent(TRUE)]]
    /\ request = NoRequest
    /\ response = NoResponse
    /\ pending = [r \in Requests |-> NotSent]
    /\ createLog = <<>>
    /\ stats = <<>>
    /\ invocations = <<>>
    /\ regexLastIndex = <<>>
    /\ ChunkerIdle
    /\ RateIdle

RaceUnchanged == UNCHANGED <<request, response, stats, invocations, regexLastIndex,
                             chunkerVars, rateVars>>

\* checkout route 12-86: the request is checked and the session looked up;
\* the handler returns, or goes on to create the session
LookUp(r) ==
    /\ pending[r].pc = "idle"
    /\ \E key \in AgentIds, b \in BookInputs, limited \in BOOLEAN :
          LET status == CheckoutOutcome(db, key, b, b # NoBook, limited).response.status
          IN  pending' = [pending EXCEPT ![r] =
                  [pc |-> IF status = 201 THEN "lookedUp" ELSE "done",
                   agent |-> key, book |-> b,
                   status |-> IF status = 201 THEN 0 ELSE status]]
    /\ UNCHANGED <<db, createLog>>
    /\ RaceUnchanged

\* checkout route 89-99: the session is created, or create throws and the
\* handler answers 500 (checkout route 149-152)
CreateSessionRow(r) ==
    /\ pending[r].pc = "lookedUp"
    /\ LET out == CreateRow(db, pending[r].agent, pending[r].book)
       IN  /\ db' = out.db
           /\ createLog' = IF out.created
                           THEN Append(createLog, <<pending[r].agent, pending[r].book>>)
                           ELSE createLog
           /\ pending' = [pending EXCEPT ![r].pc = IF out.created THEN "created" ELSE "done",
                                         ![r].status = IF out.created THEN 0 ELSE 500]
    /\ RaceUnchanged

\* checkout route 102-108
UpdateBookStats(r) ==
    /\ pending[r].pc = "created"
    /\ db' = [db EXCEPT ![ "book"][pending[r].book].currentlyReading = @ + 1,
                        ![ "book"][pending[r].book].totalCheckouts = @ + 1]
    /\ pending' = [pending EXCEPT ![r].pc = "bookUpdated"]
    /\ UNCHANGED createLog
    /\ RaceUnchanged

\* checkout route 111-131
UpdateAgentStats(r) ==
    /\ pending[r].pc = "bookUpdated"
    /\ db' = [db EXCEPT ![ "agent"][pending[r].agent].booksCurrentlyReading = @ + 1]
    /\ pending' = [pending EXCEPT ![r].pc = "done", ![r].status = 201]
    /\ UNCHANGED createLog
    /\ RaceUnchanged

RaceNext ==
    \E r \in Requests :
        LookUp(r) \/ CreateSessionRow(r) \/ UpdateBookStats(r) \/ UpdateAgentStats(r)

RaceSpec == RaceInit /\ [][RaceNext]_vars

\* the rows created for book b, and for agent a
CreatedOfBook(b) == {i \in 1..Len(createLog) : createLog[i][2] = b}

CreatedOfAgent(a) == {i \in 1..Len(createLog) : createLog[i][1] = a}

\* the requests at one of the positions
RequestsAt(positions) == {r \in Requests : pending[r].pc \in positions}

\* C27: checkout is idempotent per agent and book, also when checkout
\* requests interleave: no two reading sessions are created for one agent and
\* book, and the counters are raised once for every session created (the
\* updates still to come of the requests that created one apart), so a
\* checkout that found a session or failed to create one changed no counter.
C27_CheckoutIdempotent ==
    /\ \A i, j \in 1..Len(createLog) : createLog[i] = createLog[j] => i = j
    /\ DOMAIN db.readingSession = {createLog[i] : i \in 1..Len(createLog)}
    /\ \A b \in DOMAIN db.book :
          /\ db.book[b].totalCheckouts + Cardinality({r \in RequestsAt({"created"}) : pending[r].book = b})
                = Cardinality(CreatedOfBook(b))
          /\ db.book[b].currentlyReading = db.book[b].totalCheckouts
    /\ \A a \in DOMAIN db.agent :
          db.agent[a].booksCurrentlyReading
              + Cardinality({r \in RequestsAt({"created", "bookUpdated"}) : pending[r].agent = a})
                = Cardinality(CreatedOfAgent(a))

\* three checkouts of one agent for one book are done: two looked the session
\* up before it existed, one of them created it and the other failed, and the
\* third found the session
C27_Witness ==
    \E r1, r2, r3 \in Requests :
        /\ pending[r1].status = 201 /\ pending[r2].status = 500 /\ pending[r3].status = 200
        /\ pending[r1].agent = pending[r2].agent /\ pending[r2].agent = pending[r3].agent
        /\ pending[r1].book = pending[r2].book /\ pending[r2].book = pending[r3].book
        /\ db.book[pending[r1].book].totalCheckouts = 1
        /\ db.agent[pending[r1].agent].booksCurrentlyReading = 1

====
